---- MODULE Spec2Model ----
(***************************************************************************)
(* Mailchimp MCP server: the tool-to-REST translation gateway.             *)
(*                                                                         *)
(* Two hosting entry points register the same nine tools:                  *)
(*   "standalone"  src/src/index.ts  + src/src/services/mailchimp-client.ts *)
(*   "serverless"  src/api/mcp.ts                                          *)
(* An invocation is: HTTP POST -> server.connect(transport) ->             *)
(* handleRequest -> input schema validation -> tool handler -> one fetch   *)
(* -> response handling -> result payload.                                 *)
(***************************************************************************)
EXTENDS Integers, Sequences, FiniteSets, TLC

VARIABLES
    entry,            \* which hosting entry point is deployed
    urlParser,        \* whose `new URL` the runtime of the deployment has
    apiKey,           \* process.env.MAILCHIMP_API_KEY || "" (a string of characters)
    dataCenter,       \* DATA_CENTER of mailchimp-client.ts, computed at module load
    pc,               \* pc[i]: position of invocation i
    tool,             \* tool[i]: tool name of invocation i
    args,             \* args[i]: argument mapping (raw, then parsed by the schema)
    outbound,         \* outbound[i]: the HTTP requests invocation i has issued
    bodyRead,         \* bodyRead[i]: response.json() was called
    outcome,          \* outcome[i]: result of the tool call
    response,         \* response[i]: the remote response invocation i received
    serverTransport,  \* serverTransport[s]: transport the McpServer s is connected to
    received,         \* received[c]: what the caller of invocation c got back
    closed            \* invocations whose transport has been closed

vars == <<entry, urlParser, apiKey, dataCenter, pc, tool, args, outbound, bodyRead, outcome,
          response, serverTransport, received, closed>>

----------------------------------------------------------------------------
(* Bounds of the model *)

\* number of invocations that may be in flight at the same time
NumInv == 2
\* longest credential string enumerated for the region resolution
MaxCredLen == 4
\* longest test_emails list enumerated
MaxEmails == 6

----------------------------------------------------------------------------
(* JavaScript values.  Every value is a tagged record. *)

Undefined == [t |-> "undefined"]
Null == [t |-> "null"]
Str(s) == [t |-> "str", s |-> s]
\* a string whose characters the code inspects (emails)
Chars(c) == [t |-> "chars", c |-> c]
\* a number n/d (d = 1 for integers)
Num(n) == [t |-> "num", n |-> n, d |-> 1]
Frac(n, d) == [t |-> "num", n |-> n, d |-> d]
Obj(f) == [t |-> "obj", o |-> f]
Arr(s) == [t |-> "arr", a |-> s]
\* a response body that is not JSON text (HTML error page, empty body)
NotJson == [t |-> "notjson"]

EmptyObj == Obj(<<>>)

\* JavaScript truthiness, as used by `||` and `if (x)`
Truthy(v) ==
    CASE v.t = "undefined" -> FALSE
      [] v.t = "null" -> FALSE
      [] v.t = "str" -> v.s # ""
      [] v.t = "chars" -> v.c # <<>>
      [] v.t = "num" -> v.n # 0
      [] OTHER -> TRUE

\* a || b
OrElse(a, b) == IF Truthy(a) THEN a ELSE b

\* property read v.k throws a TypeError on undefined and null
CanRead(v) == v.t \notin {"undefined", "null"}

\* v.k for a readable v: own property or undefined
Get(v, k) == IF v.t = "obj" /\ k \in DOMAIN v.o THEN v.o[k] ELSE Undefined

\* v?.k
GetOpt(v, k) == IF CanRead(v) THEN Get(v, k) ELSE Undefined

\* JSON.stringify of an object literal: keys whose value is undefined are omitted
Stringify(f) ==
    Obj([k \in {q \in DOMAIN f : f[q].t # "undefined"} |-> f[k]])

----------------------------------------------------------------------------
(* Credential and regional endpoint *)

Last(s) == s[Len(s)]

\* s.split(sep): the segments between the separators (never empty)
RECURSIVE Split(_, _)
Split(s, sep) ==
    IF \E i \in 1..Len(s) : s[i] = sep
    THEN LET i == CHOOSE j \in 1..Len(s) :
                    s[j] = sep /\ \A m \in 1..(j - 1) : s[m] # sep
         IN <<SubSeq(s, 1, i - 1)>> \o Split(SubSeq(s, i + 1, Len(s)), sep)
    ELSE <<s>>

DefaultDataCenter == <<"u", "s", "1">>

\* API_KEY.split("-").pop() || "us1"
DATA_CENTER(key) ==
    LET popped == Last(Split(key, "-"))
    IN IF popped # <<>> THEN popped ELSE DefaultDataCenter

\* getApiConfig() of the serverless entry: the same expression, per call
getApiConfig(key) ==
    LET dc == Last(Split(key, "-"))
    IN [apiKey |-> key, dc |-> IF dc # <<>> THEN dc ELSE DefaultDataCenter]

----------------------------------------------------------------------------
(* new URL(`${BASE_URL}${path}`): the address a request is sent to.  Texts the
   URL parser reads are sequences of characters; regions are drawn over
   letters, '-', ' ' and ':', identifiers over letters, digits and
   . / ? = & #, and the parser is modelled on these characters. *)

\* new URL(...) throws TypeError("Invalid URL") unless the host parses: a
\* space is a forbidden host code point; a colon starts a port, and what
\* follows it up to ".api.mailchimp.com" is never a number
UrlHostOk(dc) == \A k \in 1..Len(dc) : dc[k] \notin {" ", ":"}

\* the region label of the parsed host `${dc}.api.mailchimp.com`: the host
\* parser lower-cases ASCII letters
UrlHost(dc) ==
    LET upper == <<"A", "B", "C", "D", "E", "F", "G", "H", "I", "J", "K", "L", "M", "N",
                   "O", "P", "Q", "R", "S", "T", "U", "V", "W", "X", "Y", "Z">>
        lower == <<"a", "b", "c", "d", "e", "f", "g", "h", "i", "j", "k", "l", "m", "n",
                   "o", "p", "q", "r", "s", "t", "u", "v", "w", "x", "y", "z">>
    IN [k \in 1..Len(dc) |->
            IF \E n \in 1..26 : upper[n] = dc[k]
            THEN lower[CHOOSE n \in 1..26 : upper[n] = dc[k]]
            ELSE dc[k]]

\* the segments of the paths the handlers build
Seg ==
    [api |-> <<"3", ".", "0">>,
     campaigns |-> <<"c", "a", "m", "p", "a", "i", "g", "n", "s">>,
     lists |-> <<"l", "i", "s", "t", "s">>,
     reports |-> <<"r", "e", "p", "o", "r", "t", "s">>,
     content |-> <<"c", "o", "n", "t", "e", "n", "t">>,
     actions |-> <<"a", "c", "t", "i", "o", "n", "s">>,
     test |-> <<"t", "e", "s", "t">>,
     send |-> <<"s", "e", "n", "d">>,
     schedule |-> <<"s", "c", "h", "e", "d", "u", "l", "e">>]

\* `${v}` inside a path template: the characters of the string (a text the
\* model keeps whole stands for one without characters the parser acts on)
TemplateChars(v) ==
    CASE v.t = "chars" -> v.c
      [] v.t = "str" -> <<v.s>>
      [] OTHER -> <<v.t>>

\* `/${a}/${b}...`: the path text of a template
RECURSIVE PathText(_)
PathText(parts) ==
    IF parts = <<>> THEN <<>> ELSE <<"/">> \o Head(parts) \o PathText(Tail(parts))

\* the part of s before the first character that is in stops
Before(s, stops) ==
    IF \E k \in 1..Len(s) : s[k] \in stops
    THEN SubSeq(s, 1, (CHOOSE k \in 1..Len(s) :
                          s[k] \in stops /\ \A m \in 1..(k - 1) : s[m] \notin stops) - 1)
    ELSE s

\* the part of s after the first occurrence of stop (empty if there is none)
After(s, stop) == SubSeq(s, Len(Before(s, {stop})) + 2, Len(s))

\* path state of the URL parser: "." is dropped, ".." also drops the
\* segment before it, and either leaves an empty segment when it comes last
RECURSIVE UrlShorten(_, _)
UrlShorten(done, rest) ==
    IF rest = <<>> THEN done
    ELSE LET seg == Head(rest)
             closing == IF Len(rest) = 1 THEN <<<<>>>> ELSE <<>>
         IN IF seg = <<".", ".">>
            THEN UrlShorten((IF done = <<>> THEN done ELSE SubSeq(done, 1, Len(done) - 1))
                                \o closing, Tail(rest))
            ELSE IF seg = <<".">> THEN UrlShorten(done \o closing, Tail(rest))
            ELSE UrlShorten(Append(done, seg), Tail(rest))

\* the URL parsers a runtime may bring: the path state of the URL standard,
\* and the parser of node 22 (ada 2.9), which looks at the first "/." of a
\* path only and takes the whole path as it is written when that is
\* followed by anything but '.', '/' or the end
UrlParsers == {"standard", "ada"}

\* url.pathname of `/3.0${path}`, as its segments: the text up to the first
\* '?' or '#', split at '/', dot segments resolved unless the parser takes
\* the path as written
UrlPath(path) ==
    LET text == Before(Seg.api \o path, {"?", "#"})
        slashDot == {k \in 1..(Len(text) - 1) : text[k] = "/" /\ text[k + 1] = "."}
        first == CHOOSE k \in slashDot : \A m \in slashDot : k <= m
        asWritten == /\ slashDot # {}
                     /\ first + 2 <= Len(text)
                     /\ text[first + 2] \notin {".", "/"}
    IN IF urlParser = "ada" /\ asWritten THEN Split(text, "/")
       ELSE UrlShorten(<<>>, Split(text, "/"))

\* name=value pieces of a query string
RECURSIVE UrlPairs(_)
UrlPairs(pieces) ==
    IF pieces = <<>> THEN <<>>
    ELSE (IF Head(pieces) = <<>> THEN <<>>
          ELSE <<[name |-> Before(Head(pieces), {"="}), value |-> After(Head(pieces), "=")]>>)
         \o UrlPairs(Tail(pieces))

\* url.searchParams before any set(): what stands between the first '?' and
\* the first '#' of the path text, split at '&'
UrlQuery(path) == UrlPairs(Split(After(Before(path, {"#"}), "?"), "&"))

----------------------------------------------------------------------------
(* Remote responses *)

\* response.ok: status in the range 200-299
ResponseOk(status) == status >= 200 /\ status <= 299

\* `${x}` in a template literal: a string stays itself, a number prints its
\* digits, an object prints as "[object Object]", an array prints its
\* elements joined by commas, undefined and null print their names
ToText(v) ==
    CASE v.t \in {"str", "chars", "num"} -> v
      [] v.t = "obj" -> Str("[object Object]")
      [] v.t = "arr" -> [t |-> "joined", a |-> v.a]
      [] OTHER -> Str(v.t)

Returned(value, read) ==
    [ok |-> TRUE, value |-> value, error |-> <<>>, name |-> "", read |-> read]
Thrown(name, message, read) ==
    [ok |-> FALSE, value |-> Undefined, error |-> message, name |-> name, read |-> read]

\* fetch() rejected: no response at all (network failure, timeout)
FetchFailed == Thrown("TypeError", <<Str("fetch failed")>>, FALSE)
\* new URL() threw: no request is made
InvalidUrl == Thrown("TypeError", <<Str("Invalid URL")>>, FALSE)
\* response.json() rejected: the body is not JSON text
JsonFailed == Thrown("SyntaxError", <<Str("Unexpected token in JSON")>>, TRUE)
\* data.detail on a body that is the JSON value null
NullBodyFailed == Thrown("TypeError", <<Str("Cannot read properties of null")>>, TRUE)

----------------------------------------------------------------------------
(* Remote Client of the standalone entry: mailchimpRequest *)

\* the credential check left out
mailchimpRequest_noKey_never(key) == FALSE

\* if (!API_KEY) throw ...
mailchimpRequest_noKey(key) == key = <<>>

mailchimpRequest_configError ==
    Thrown("Error",
           <<Str("MAILCHIMP_API_KEY environment variable is not set. Format: <key>-<dc> (e.g., abc123-us14)")>>,
           FALSE)

\* the one fetch() call: url.toString() of BASE_URL and path, the params set
\* on its query (no request that has params has a query in its path); bearer
\* header; a body only when options.body is truthy
mailchimpRequest_fetch(key, dc, options) ==
    [method |-> options.method,
     host |-> UrlHost(dc),
     path |-> UrlPath(options.path),
     query |-> UrlQuery(options.path),
     params |-> options.params,
     auth |-> key,
     body |-> IF Truthy(options.body) THEN options.body ELSE Undefined]

\* no special case for 204
mailchimpRequest_noContent_never(status) == FALSE

\* status 204 is answered before the body is read
mailchimpRequest_noContent(status) == status = 204

\* data.detail || data.title || "Unknown error"
mailchimpRequest_errorDetail(data) ==
    OrElse(Get(data, "detail"), OrElse(Get(data, "title"), Str("Unknown error")))

\* everything after `await fetch(...)`
mailchimpRequest_response(resp) ==
    IF resp.kind = "reject" THEN FetchFailed
    ELSE IF mailchimpRequest_noContent(resp.status) THEN Returned(EmptyObj, FALSE)
    ELSE IF resp.body = NotJson THEN JsonFailed
    ELSE IF ~ResponseOk(resp.status)
         THEN IF ~CanRead(resp.body) THEN NullBodyFailed
              ELSE Thrown("Error",
                          <<Str("Mailchimp API error ("), Num(resp.status), Str("): "),
                            ToText(mailchimpRequest_errorDetail(resp.body))>>,
                          TRUE)
    ELSE Returned(resp.body, TRUE)

----------------------------------------------------------------------------
(* Remote Client of the serverless entry: mc *)

\* if (!apiKey) throw ...
mc_noKey(key) == getApiConfig(key).apiKey = <<>>

mc_configError ==
    Thrown("Error", <<Str("MAILCHIMP_API_KEY not set. Format: <key>-<dc>")>>, FALSE)

mc_fetch(key, options) ==
    [method |-> options.method,
     host |-> UrlHost(getApiConfig(key).dc),
     path |-> UrlPath(options.path),
     query |-> UrlQuery(options.path),
     params |-> options.params,
     auth |-> getApiConfig(key).apiKey,
     body |-> IF Truthy(options.body) THEN options.body ELSE Undefined]

mc_noContent(status) == status = 204

\* data.detail || data.title || "Error"
mc_errorDetail(data) ==
    OrElse(Get(data, "detail"), OrElse(Get(data, "title"), Str("Error")))

mc_response(resp) ==
    IF resp.kind = "reject" THEN FetchFailed
    ELSE IF mc_noContent(resp.status) THEN Returned(EmptyObj, FALSE)
    ELSE IF resp.body = NotJson THEN JsonFailed
    ELSE IF ~ResponseOk(resp.status)
         THEN IF ~CanRead(resp.body) THEN NullBodyFailed
              ELSE Thrown("Error",
                          <<Str("Mailchimp "), Num(resp.status), Str(": "),
                            ToText(mc_errorDetail(resp.body))>>,
                          TRUE)
    ELSE Returned(resp.body, TRUE)

----------------------------------------------------------------------------
(* Input contracts: the zod schemas of registerTool *)

Letters == {"a", "b", "c"}
Digits == {"1", "2"}

\* z.string().email():
\* /^(?!\.)(?!.*\.\.)([A-Z0-9_'+\-\.]*)[A-Z0-9_+-]@([A-Z0-9][A-Z0-9\-]*\.)+[A-Z]{2,}$/i
IsEmail(s) ==
    LET ats == {i \in 1..Len(s) : s[i] = "@"}
        at == CHOOSE i \in ats : TRUE
        local == SubSeq(s, 1, at - 1)
        labels == Split(SubSeq(s, at + 1, Len(s)), ".")
        alnum == Letters \cup Digits
    IN /\ Cardinality(ats) = 1
       /\ Len(s) > 0 /\ s[1] # "."
       /\ \A i \in 1..(Len(s) - 1) : ~(s[i] = "." /\ s[i + 1] = ".")
       /\ Len(local) >= 1
       /\ \A i \in 1..Len(local) : local[i] \in alnum \cup {"_", "'", "+", "-", "."}
       /\ Last(local) \in alnum \cup {"_", "+", "-"}
       /\ Len(labels) >= 2
       /\ \A n \in 1..(Len(labels) - 1) :
            /\ Len(labels[n]) >= 1
            /\ labels[n][1] \in alnum
            /\ \A i \in 1..Len(labels[n]) : labels[n][i] \in alnum \cup {"-"}
       /\ Len(Last(labels)) >= 2
       /\ \A i \in 1..Len(Last(labels)) : Last(labels)[i] \in Letters

Field(kind, optional, hasDefault, default, values) ==
    [kind |-> kind, optional |-> optional, hasDefault |-> hasDefault,
     default |-> default, values |-> values]

\* z.string()
ZString == Field("string", FALSE, FALSE, Undefined, {})
\* z.string().optional()
ZStringOptional == Field("string", TRUE, FALSE, Undefined, {})
\* z.string().email()
ZEmail == Field("email", FALSE, FALSE, Undefined, {})

COUNT_MIN == 1
COUNT_MAX == 100
COUNT_DEFAULT == 20
TEST_EMAILS_MIN == 1
TEST_EMAILS_MAX == 5

\* z.enum(["save", "sent", "schedule", "sending", "paused"]).optional()
ZStatus ==
    Field("enum", TRUE, FALSE, Undefined, {"save", "sent", "schedule", "sending", "paused"})
\* z.number().int().min(1).max(100).default(20)
ZCount == Field("count", FALSE, TRUE, Num(COUNT_DEFAULT), {})
\* z.array(z.string().email()).min(1).max(5)
ZTestEmails == Field("emails", FALSE, FALSE, Undefined, {})
\* z.enum(["html", "plaintext"]).default("html")
ZSendType == Field("enum", FALSE, TRUE, Str("html"), {"html", "plaintext"})

\* the count's upper bound left out
FieldOk_countUnbounded(f, v) ==
    IF v.t = "undefined" THEN f.optional \/ f.hasDefault
    ELSE CASE f.kind = "string" -> v.t \in {"str", "chars"}
           [] f.kind = "email" -> v.t = "chars" /\ IsEmail(v.c)
           [] f.kind = "enum" -> v.t = "str" /\ v.s \in f.values
           [] f.kind = "count" -> v.t = "num" /\ v.n % v.d = 0 /\ v.n \div v.d >= COUNT_MIN
           [] f.kind = "emails" ->
                /\ v.t = "arr"
                /\ \A i \in 1..Len(v.a) : v.a[i].t = "chars" /\ IsEmail(v.a[i].c)
                /\ Len(v.a) >= TEST_EMAILS_MIN
                /\ Len(v.a) <= TEST_EMAILS_MAX
           [] OTHER -> FALSE

\* safeParse of one field
FieldOk(f, v) ==
    IF v.t = "undefined" THEN f.optional \/ f.hasDefault
    ELSE CASE f.kind = "string" -> v.t \in {"str", "chars"}
           [] f.kind = "email" -> v.t = "chars" /\ IsEmail(v.c)
           [] f.kind = "enum" -> v.t = "str" /\ v.s \in f.values
           [] f.kind = "count" ->
                /\ v.t = "num"
                /\ v.n % v.d = 0
                /\ v.n \div v.d >= COUNT_MIN
                /\ v.n \div v.d <= COUNT_MAX
           [] f.kind = "emails" ->
                /\ v.t = "arr"
                /\ \A i \in 1..Len(v.a) : v.a[i].t = "chars" /\ IsEmail(v.a[i].c)
                /\ Len(v.a) >= TEST_EMAILS_MIN
                /\ Len(v.a) <= TEST_EMAILS_MAX
           [] OTHER -> FALSE

\* the parsed value of one field: the default replaces an absent value
FieldParsed(f, v) == IF v.t = "undefined" /\ f.hasDefault THEN f.default ELSE v

\* the value of argument k in an argument mapping (absent reads as undefined)
Arg(a, k) == IF k \in DOMAIN a THEN a[k] ELSE Undefined

\* schema.safeParse(arguments).success
SchemaOk(schema, a) == \A k \in DOMAIN schema : FieldOk(schema[k], Arg(a, k))

\* schema.safeParse(arguments).data: declared keys only, defaults applied
SchemaParsed(schema, a) ==
    [k \in DOMAIN schema |-> FieldParsed(schema[k], Arg(a, k))]

OnlyCampaignId == [campaign_id |-> ZString]

\* inputSchema of each tool registered by src/src/index.ts
index_inputSchema(name) ==
    CASE name = "mailchimp_list_audiences" -> <<>>
      [] name = "mailchimp_list_campaigns" -> [status |-> ZStatus, count |-> ZCount]
      [] name = "mailchimp_create_campaign" ->
            [list_id |-> ZString, subject |-> ZString, preview_text |-> ZStringOptional,
             title |-> ZStringOptional, from_name |-> ZString, reply_to |-> ZEmail]
      [] name = "mailchimp_set_campaign_content" ->
            [campaign_id |-> ZString, html |-> ZString]
      [] name = "mailchimp_send_test" ->
            [campaign_id |-> ZString, test_emails |-> ZTestEmails, send_type |-> ZSendType]
      [] name = "mailchimp_send_campaign" -> OnlyCampaignId
      [] name = "mailchimp_schedule_campaign" ->
            [campaign_id |-> ZString, schedule_time |-> ZString]
      [] name = "mailchimp_get_campaign_report" -> OnlyCampaignId
      [] name = "mailchimp_delete_campaign" -> OnlyCampaignId

\* inputSchema of each tool registered by src/api/mcp.ts
mcp_inputSchema(name) ==
    CASE name = "mailchimp_list_audiences" -> <<>>
      [] name = "mailchimp_list_campaigns" -> [status |-> ZStatus, count |-> ZCount]
      [] name = "mailchimp_create_campaign" ->
            [list_id |-> ZString, subject |-> ZString, preview_text |-> ZStringOptional,
             title |-> ZStringOptional, from_name |-> ZString, reply_to |-> ZEmail]
      [] name = "mailchimp_set_content" -> [campaign_id |-> ZString, html |-> ZString]
      [] name = "mailchimp_send_test" ->
            [campaign_id |-> ZString, test_emails |-> ZTestEmails, send_type |-> ZSendType]
      [] name = "mailchimp_send_campaign" -> OnlyCampaignId
      [] name = "mailchimp_schedule_campaign" ->
            [campaign_id |-> ZString, schedule_time |-> ZString]
      [] name = "mailchimp_get_report" -> OnlyCampaignId
      [] name = "mailchimp_delete_campaign" -> OnlyCampaignId

\* tool names registered by each entry point, in registration order
index_tools ==
    <<"mailchimp_list_audiences", "mailchimp_list_campaigns", "mailchimp_create_campaign",
      "mailchimp_set_campaign_content", "mailchimp_send_test", "mailchimp_send_campaign",
      "mailchimp_schedule_campaign", "mailchimp_get_campaign_report",
      "mailchimp_delete_campaign">>

mcp_tools ==
    <<"mailchimp_list_audiences", "mailchimp_list_campaigns", "mailchimp_create_campaign",
      "mailchimp_set_content", "mailchimp_send_test", "mailchimp_send_campaign",
      "mailchimp_schedule_campaign", "mailchimp_get_report", "mailchimp_delete_campaign">>

Range(s) == {s[i] : i \in DOMAIN s}

\* the tool names of the README's tool table
readme_tools ==
    <<"mailchimp_list_audiences", "mailchimp_list_campaigns", "mailchimp_create_campaign",
      "mailchimp_set_content", "mailchimp_send_test", "mailchimp_send_campaign",
      "mailchimp_schedule_campaign", "mailchimp_get_report", "mailchimp_delete_campaign">>

----------------------------------------------------------------------------
(* Tool handlers: request mapping and response mapping *)

Options(method, path, params, body) ==
    [method |-> method, path |-> path, params |-> params, body |-> body]

NoParams == <<>>

\* the result of a tool call as the caller sees it: a text block holding
\* pretty-printed JSON, or a failure carrying the message of the thrown error
Payload(v) == [ok |-> TRUE, payload |-> v, name |-> "", error |-> <<>>]
Failed(name, message) == [ok |-> FALSE, payload |-> Undefined, name |-> name, error |-> message]

\* a property read on undefined or null inside a handler
HandlerTypeError == Failed("TypeError", <<Str("Cannot read properties of undefined")>>)

\* the characters of the decimal digits
DecimalDigits == <<"0", "1", "2", "3", "4", "5", "6", "7", "8", "9">>

\* the decimal numeral of a natural number
RECURSIVE NumeralOf(_)
NumeralOf(n) ==
    IF n < 10 THEN <<DecimalDigits[n + 1]>>
    ELSE NumeralOf(n \div 10) \o <<DecimalDigits[(n % 10) + 1]>>

\* Number.prototype.toFixed(1) of a number given in tenths
ToFixed1(tenths) == NumeralOf(tenths \div 10) \o <<".", DecimalDigits[(tenths % 10) + 1]>>

\* binary numerals, most significant bit first
RECURSIVE BitsOf(_)
BitsOf(n) == IF n = 0 THEN <<>> ELSE Append(BitsOf(n \div 2), n % 2)

RECURSIVE NatOf(_)
NatOf(b) == IF b = <<>> THEN 0 ELSE 2 * NatOf(SubSeq(b, 1, Len(b) - 1)) + b[Len(b)]

Zeros(k) == [i \in 1..k |-> 0]

RECURSIVE Strip(_)
Strip(b) == IF b # <<>> /\ b[1] = 0 THEN Strip(Tail(b)) ELSE b

RECURSIVE AddBits(_, _, _)
AddBits(a, b, carry) ==
    IF a = <<>> /\ b = <<>> THEN (IF carry = 1 THEN <<1>> ELSE <<>>)
    ELSE LET sum == (IF a = <<>> THEN 0 ELSE a[Len(a)])
                    + (IF b = <<>> THEN 0 ELSE b[Len(b)]) + carry
         IN IF sum >= 2
            THEN Append(AddBits(SubSeq(a, 1, Len(a) - 1), SubSeq(b, 1, Len(b) - 1), 1),
                        sum - 2)
            ELSE Append(AddBits(SubSeq(a, 1, Len(a) - 1), SubSeq(b, 1, Len(b) - 1), 0),
                        sum)

\* the significand of an IEEE 754 double
SignificandBits == 53

\* what is left of n/d after k bits of its binary fraction
RECURSIVE Rem(_, _, _)
Rem(n, d, k) == IF k = 0 THEN n % d ELSE (2 * Rem(n, d, k - 1)) % d

\* the double a JSON number n/d (n >= 0, 0 < d < 2^30) is read as, the
\* quotient rounded at its 53rd significant bit: [b |-> bits of the
\* numerator, f |-> number of bits after the binary point]
ToDouble(n, d) ==
    LET FracBit(k) == IF 2 * Rem(n, d, k - 1) >= d THEN 1 ELSE 0
        whole == BitsOf(n \div d)
        first == CHOOSE k \in 1..31 :
                    FracBit(k) = 1 /\ \A j \in 1..(k - 1) : FracBit(j) = 0
        f == IF whole # <<>> THEN SignificandBits - Len(whole)
             ELSE first + SignificandBits - 1
        bits == whole \o [k \in 1..f |-> FracBit(k)]
        up == /\ FracBit(f + 1) = 1
              /\ Rem(n, d, f + 1) # 0 \/ bits[Len(bits)] = 1
    IN IF n % d = 0 THEN [b |-> whole, f |-> 0]
       ELSE [b |-> Strip(IF up THEN AddBits(bits, <<1>>, 0) ELSE bits), f |-> f]

\* x * 100 in double arithmetic (100 = 64 + 32 + 4): the exact product,
\* rounded to nearest, ties to even, at the 53rd significant bit
Times100(x) ==
    LET b == Strip(AddBits(AddBits(x.b \o Zeros(6), x.b \o Zeros(5), 0), x.b \o Zeros(2), 0))
        kept == SubSeq(b, 1, SignificandBits)
        up == /\ b[SignificandBits + 1] = 1
              /\ \/ \E k \in (SignificandBits + 2)..Len(b) : b[k] = 1
                 \/ kept[SignificandBits] = 1
    IN [b |-> IF Len(b) <= SignificandBits THEN b
              ELSE (IF up THEN AddBits(kept, <<1>>, 0) ELSE kept)
                   \o Zeros(Len(b) - SignificandBits),
        f |-> x.f]

\* toFixed(1) picks the integer n with n/10 nearest to the exact value of
\* the double, the larger of two: floor(10 y + 1/2)
TenthsOf(y) ==
    LET twenty == AddBits(y.b \o Zeros(4), y.b \o Zeros(2), 0)
        sum == AddBits(twenty, <<1>> \o Zeros(y.f), 0)
    IN NatOf(SubSeq(sum, 1, Len(sum) - (y.f + 1)))

NotANumber == [nan |-> TRUE, neg |-> FALSE, n |-> 0, d |-> 1]
Number(neg, n, d) == [nan |-> FALSE, neg |-> neg, n |-> n, d |-> d]

\* the natural number a string of decimal digits stands for
RECURSIVE DecimalOf(_)
DecimalOf(c) ==
    IF c = <<>> THEN 0
    ELSE 10 * DecimalOf(SubSeq(c, 1, Len(c) - 1))
         + (CHOOSE k \in 0..9 : DecimalDigits[k + 1] = c[Len(c)])

\* StringToNumber on a string of sign, digits and point: "" is 0, a decimal
\* literal is its value, anything else is NaN
StringToNumber(c) ==
    LET neg == c # <<>> /\ c[1] = "-"
        u == IF c # <<>> /\ c[1] \in {"-", "+"} THEN Tail(c) ELSE c
        whole == Before(u, {"."})
        frac == After(u, ".")
        digits == whole \o frac
    IN IF c = <<>> THEN Number(FALSE, 0, 1)
       ELSE IF /\ digits # <<>>
               /\ \A k \in 1..Len(digits) : \E n \in 1..10 : DecimalDigits[n] = digits[k]
            THEN Number(neg, DecimalOf(digits),
                        DecimalOf(<<"1">> \o [k \in 1..Len(frac) |-> "0"]))
            ELSE NotANumber

\* ToNumber, as the operator * applies it: null is 0, a string is parsed, an
\* array goes by its elements joined with commas, undefined and objects
\* are NaN (a text the model keeps whole is no numeral unless it is empty)
RECURSIVE ToNumber(_)
ToNumber(v) ==
    CASE v.t = "num" -> Number(v.n < 0, IF v.n < 0 THEN 0 - v.n ELSE v.n, v.d)
      [] v.t = "null" -> Number(FALSE, 0, 1)
      [] v.t = "chars" -> StringToNumber(v.c)
      [] v.t = "str" -> IF v.s = "" THEN Number(FALSE, 0, 1) ELSE NotANumber
      [] v.t = "arr" ->
            IF v.a = <<>> THEN Number(FALSE, 0, 1)
            ELSE IF Len(v.a) > 1 THEN NotANumber
            ELSE IF v.a[1].t \in {"null", "undefined"} THEN Number(FALSE, 0, 1)
            ELSE ToNumber(v.a[1])
      [] OTHER -> NotANumber

\* the percentage cut off after its first decimal instead of rounded
PercentText_truncated(x) ==
    LET v == ToNumber(x)
    IN IF v.nan THEN Chars(<<"N", "a", "N", "%">>)
       ELSE Chars((IF v.neg /\ v.n # 0 THEN <<"-">> ELSE <<>>)
                  \o ToFixed1((1000 * v.n) \div v.d) \o <<"%">>)

\* `${(x * 100).toFixed(1)}%`: x as a number, the product as a double, and
\* of its exact value the nearest tenth, a minus sign before a number
\* below zero (which -0 is not)
PercentText(x) ==
    LET v == ToNumber(x)
    IN IF v.nan THEN Chars(<<"N", "a", "N", "%">>)
       ELSE Chars((IF v.neg /\ v.n # 0 THEN <<"-">> ELSE <<>>)
                  \o ToFixed1(TenthsOf(Times100(ToDouble(v.n, v.d)))) \o <<"%">>)

\* x.map(f) needs an array x whose elements f can read
CanMap(list, sub) ==
    /\ list.t = "arr"
    /\ \A i \in 1..Len(list.a) : CanRead(list.a[i]) /\ CanRead(Get(list.a[i], sub))

\* the title passed on as given, without the subject as its default
index_createBody_titleAsGiven(a) ==
    Obj([type |-> Str("regular"),
         recipients |-> Obj([list_id |-> a.list_id]),
         settings |-> Obj([subject_line |-> a.subject,
                           preview_text |-> OrElse(a.preview_text, Str("")),
                           title |-> a.title,
                           from_name |-> a.from_name,
                           reply_to |-> a.reply_to])])

\* body of the create campaign request of src/src/index.ts
index_createBody(a) ==
    Obj([type |-> Str("regular"),
         recipients |-> Obj([list_id |-> a.list_id]),
         settings |-> Obj([subject_line |-> a.subject,
                           preview_text |-> OrElse(a.preview_text, Str("")),
                           title |-> OrElse(a.title, a.subject),
                           from_name |-> a.from_name,
                           reply_to |-> a.reply_to])])

\* the content sent with POST instead of PUT
index_setContent_post(a) ==
    Options("POST", PathText(<<Seg.campaigns, TemplateChars(a.campaign_id), Seg.content>>),
            NoParams, Obj([html |-> a.html]))

\* the set content request of src/src/index.ts
index_setContent(a) ==
    Options("PUT", PathText(<<Seg.campaigns, TemplateChars(a.campaign_id), Seg.content>>),
            NoParams, Obj([html |-> a.html]))

\* request mapping of src/src/index.ts
index_request(name, a) ==
    CASE name = "mailchimp_list_audiences" ->
            Options("GET", PathText(<<Seg.lists>>),
                    [count |-> Str("100"), fields |-> Str("lists.id,lists.name,lists.stats")],
                    Undefined)
      [] name = "mailchimp_list_campaigns" ->
            Options("GET", PathText(<<Seg.campaigns>>),
                    IF Truthy(a.status)
                    THEN [count |-> ToText(a.count), sort_field |-> Str("create_time"),
                          sort_dir |-> Str("DESC"), status |-> a.status]
                    ELSE [count |-> ToText(a.count), sort_field |-> Str("create_time"),
                          sort_dir |-> Str("DESC")],
                    Undefined)
      [] name = "mailchimp_create_campaign" ->
            Options("POST", PathText(<<Seg.campaigns>>), NoParams,
                    index_createBody(a))
      [] name = "mailchimp_set_campaign_content" ->
            index_setContent(a)
      [] name = "mailchimp_send_test" ->
            Options("POST",
                    PathText(<<Seg.campaigns, TemplateChars(a.campaign_id), Seg.actions, Seg.test>>),
                    NoParams,
                    Obj([test_emails |-> a.test_emails, send_type |-> a.send_type]))
      [] name = "mailchimp_send_campaign" ->
            Options("POST",
                    PathText(<<Seg.campaigns, TemplateChars(a.campaign_id), Seg.actions, Seg.send>>),
                    NoParams, Undefined)
      [] name = "mailchimp_schedule_campaign" ->
            Options("POST",
                    PathText(<<Seg.campaigns, TemplateChars(a.campaign_id), Seg.actions, Seg.schedule>>),
                    NoParams, Obj([schedule_time |-> a.schedule_time]))
      [] name = "mailchimp_get_campaign_report" ->
            Options("GET", PathText(<<Seg.reports, TemplateChars(a.campaign_id)>>), NoParams, Undefined)
      [] name = "mailchimp_delete_campaign" ->
            Options("DELETE", PathText(<<Seg.campaigns, TemplateChars(a.campaign_id)>>), NoParams, Undefined)

\* one entry of the list audiences summary
index_audienceSummary(l) ==
    Stringify([id |-> Get(l, "id"),
               name |-> Get(l, "name"),
               subscribers |-> Get(Get(l, "stats"), "member_count"),
               open_rate |-> PercentText(Get(Get(l, "stats"), "open_rate")),
               click_rate |-> PercentText(Get(Get(l, "stats"), "click_rate"))])

\* one entry of the list campaigns summary
index_campaignSummary(c) ==
    Stringify([id |-> Get(c, "id"),
               title |-> OrElse(Get(Get(c, "settings"), "title"), Str("(untitled)")),
               subject |-> OrElse(Get(Get(c, "settings"), "subject_line"), Str("(no subject)")),
               status |-> Get(c, "status"),
               created |-> Get(c, "create_time"),
               sent |-> OrElse(Get(c, "send_time"), Null),
               emails_sent |-> OrElse(Get(c, "emails_sent"), Null),
               opens |-> OrElse(GetOpt(Get(c, "report_summary"), "unique_opens"), Null),
               clicks |-> OrElse(GetOpt(Get(c, "report_summary"), "subscriber_clicks"), Null)])

\* the summary object of get campaign report
index_reportSummary(a, report) ==
    Stringify([campaign_id |-> a.campaign_id,
               subject |-> Get(report, "subject_line"),
               emails_sent |-> Get(report, "emails_sent"),
               opens |-> GetOpt(Get(report, "opens"), "unique_opens"),
               open_rate |-> GetOpt(Get(report, "opens"), "open_rate"),
               clicks |-> GetOpt(Get(report, "clicks"), "unique_subscriber_clicks"),
               click_rate |-> GetOpt(Get(report, "clicks"), "click_rate"),
               bounces |-> Get(report, "bounces"),
               unsubscribes |-> Get(report, "unsubscribed")])

\* response mapping of src/src/index.ts: what the handler does with the
\* value mailchimpRequest returned
index_shape(name, a, data) ==
    CASE name = "mailchimp_list_audiences" ->
            IF CanRead(data) /\ CanMap(Get(data, "lists"), "stats")
            THEN Payload(Arr([i \in 1..Len(Get(data, "lists").a) |->
                                index_audienceSummary(Get(data, "lists").a[i])]))
            ELSE HandlerTypeError
      [] name = "mailchimp_list_campaigns" ->
            IF CanRead(data) /\ CanMap(Get(data, "campaigns"), "settings")
            THEN Payload(Arr([i \in 1..Len(Get(data, "campaigns").a) |->
                                index_campaignSummary(Get(data, "campaigns").a[i])]))
            ELSE HandlerTypeError
      [] name = "mailchimp_create_campaign" ->
            IF CanRead(data) /\ CanRead(Get(data, "settings"))
            THEN Payload(Stringify(
                    [campaign_id |-> Get(data, "id"),
                     status |-> Get(data, "status"),
                     subject |-> Get(Get(data, "settings"), "subject_line"),
                     title |-> Get(Get(data, "settings"), "title"),
                     message |-> Str("Campaign draft created. Use mailchimp_set_campaign_content to add HTML, then mailchimp_send_test or mailchimp_send_campaign.")]))
            ELSE HandlerTypeError
      [] name = "mailchimp_set_campaign_content" ->
            Payload(Stringify(
                [campaign_id |-> a.campaign_id,
                 message |-> Str("HTML content set successfully. Use mailchimp_send_test to preview, or mailchimp_send_campaign to send to your full list.")]))
      [] name = "mailchimp_send_test" ->
            Payload(Stringify(
                [campaign_id |-> a.campaign_id,
                 sent_to |-> a.test_emails,
                 message |-> Str("Test email sent. Check your inbox to preview.")]))
      [] name = "mailchimp_send_campaign" ->
            Payload(Stringify(
                [campaign_id |-> a.campaign_id,
                 message |-> Str("Campaign sent! It may take a few minutes to deliver to all subscribers.")]))
      [] name = "mailchimp_schedule_campaign" ->
            Payload(Stringify(
                [campaign_id |-> a.campaign_id,
                 scheduled_for |-> a.schedule_time,
                 message |-> Str("Campaign scheduled successfully.")]))
      [] name = "mailchimp_get_campaign_report" ->
            IF CanRead(data) THEN Payload(index_reportSummary(a, data))
            ELSE HandlerTypeError
      [] name = "mailchimp_delete_campaign" ->
            Payload(Stringify([campaign_id |-> a.campaign_id,
                               message |-> Str("Campaign deleted.")]))

\* the preview text passed on as given, absent when none was supplied
mcp_createBody_previewAsGiven(a) ==
    Obj([type |-> Str("regular"),
         recipients |-> Obj([list_id |-> a.list_id]),
         settings |-> Stringify([subject_line |-> a.subject,
                                 preview_text |-> a.preview_text,
                                 title |-> OrElse(a.title, a.subject),
                                 from_name |-> a.from_name,
                                 reply_to |-> a.reply_to])])

\* body of the create campaign request of src/api/mcp.ts
mcp_createBody(a) ==
    Obj([type |-> Str("regular"),
         recipients |-> Obj([list_id |-> a.list_id]),
         settings |-> Obj([subject_line |-> a.subject,
                           preview_text |-> OrElse(a.preview_text, Str("")),
                           title |-> OrElse(a.title, a.subject),
                           from_name |-> a.from_name,
                           reply_to |-> a.reply_to])])

\* the set content request of src/api/mcp.ts
mcp_setContent(a) ==
    Options("PUT", PathText(<<Seg.campaigns, TemplateChars(a.campaign_id), Seg.content>>),
            NoParams, Obj([html |-> a.html]))

\* request mapping of src/api/mcp.ts
mcp_request(name, a) ==
    CASE name = "mailchimp_list_audiences" ->
            Options("GET", PathText(<<Seg.lists>>),
                    [count |-> Str("100"), fields |-> Str("lists.id,lists.name,lists.stats")],
                    Undefined)
      [] name = "mailchimp_list_campaigns" ->
            Options("GET", PathText(<<Seg.campaigns>>),
                    IF Truthy(a.status)
                    THEN [count |-> ToText(a.count), sort_field |-> Str("create_time"),
                          sort_dir |-> Str("DESC"), status |-> a.status]
                    ELSE [count |-> ToText(a.count), sort_field |-> Str("create_time"),
                          sort_dir |-> Str("DESC")],
                    Undefined)
      [] name = "mailchimp_create_campaign" ->
            Options("POST", PathText(<<Seg.campaigns>>), NoParams,
                    mcp_createBody(a))
      [] name = "mailchimp_set_content" ->
            mcp_setContent(a)
      [] name = "mailchimp_send_test" ->
            Options("POST",
                    PathText(<<Seg.campaigns, TemplateChars(a.campaign_id), Seg.actions, Seg.test>>),
                    NoParams,
                    Obj([test_emails |-> a.test_emails, send_type |-> a.send_type]))
      [] name = "mailchimp_send_campaign" ->
            Options("POST",
                    PathText(<<Seg.campaigns, TemplateChars(a.campaign_id), Seg.actions, Seg.send>>),
                    NoParams, Undefined)
      [] name = "mailchimp_schedule_campaign" ->
            Options("POST",
                    PathText(<<Seg.campaigns, TemplateChars(a.campaign_id), Seg.actions, Seg.schedule>>),
                    NoParams, Obj([schedule_time |-> a.schedule_time]))
      [] name = "mailchimp_get_report" ->
            Options("GET", PathText(<<Seg.reports, TemplateChars(a.campaign_id)>>), NoParams, Undefined)
      [] name = "mailchimp_delete_campaign" ->
            Options("DELETE", PathText(<<Seg.campaigns, TemplateChars(a.campaign_id)>>), NoParams, Undefined)

mcp_audienceSummary(l) ==
    Stringify([id |-> Get(l, "id"),
               name |-> Get(l, "name"),
               subscribers |-> Get(Get(l, "stats"), "member_count"),
               open_rate |-> PercentText(Get(Get(l, "stats"), "open_rate")),
               click_rate |-> PercentText(Get(Get(l, "stats"), "click_rate"))])

mcp_campaignSummary(c) ==
    Stringify([id |-> Get(c, "id"),
               title |-> OrElse(Get(Get(c, "settings"), "title"), Str("(untitled)")),
               subject |-> OrElse(Get(Get(c, "settings"), "subject_line"), Str("(no subject)")),
               status |-> Get(c, "status"),
               created |-> Get(c, "create_time"),
               sent |-> OrElse(Get(c, "send_time"), Null),
               emails_sent |-> OrElse(Get(c, "emails_sent"), Null),
               opens |-> OrElse(GetOpt(Get(c, "report_summary"), "unique_opens"), Null),
               clicks |-> OrElse(GetOpt(Get(c, "report_summary"), "subscriber_clicks"), Null)])

mcp_reportSummary(a, r) ==
    Stringify([campaign_id |-> a.campaign_id,
               subject |-> Get(r, "subject_line"),
               emails_sent |-> Get(r, "emails_sent"),
               opens |-> GetOpt(Get(r, "opens"), "unique_opens"),
               open_rate |-> GetOpt(Get(r, "opens"), "open_rate"),
               clicks |-> GetOpt(Get(r, "clicks"), "unique_subscriber_clicks"),
               click_rate |-> GetOpt(Get(r, "clicks"), "click_rate"),
               unsubscribes |-> Get(r, "unsubscribed")])

\* response mapping of src/api/mcp.ts
mcp_shape(name, a, data) ==
    CASE name = "mailchimp_list_audiences" ->
            IF CanRead(data) /\ CanMap(Get(data, "lists"), "stats")
            THEN Payload(Arr([i \in 1..Len(Get(data, "lists").a) |->
                                mcp_audienceSummary(Get(data, "lists").a[i])]))
            ELSE HandlerTypeError
      [] name = "mailchimp_list_campaigns" ->
            IF CanRead(data) /\ CanMap(Get(data, "campaigns"), "settings")
            THEN Payload(Arr([i \in 1..Len(Get(data, "campaigns").a) |->
                                mcp_campaignSummary(Get(data, "campaigns").a[i])]))
            ELSE HandlerTypeError
      [] name = "mailchimp_create_campaign" ->
            IF CanRead(data) /\ CanRead(Get(data, "settings"))
            THEN Payload(Stringify(
                    [campaign_id |-> Get(data, "id"),
                     status |-> Get(data, "status"),
                     subject |-> Get(Get(data, "settings"), "subject_line"),
                     next |-> Str("Use mailchimp_set_content to add HTML, then mailchimp_send_test or mailchimp_send_campaign.")]))
            ELSE HandlerTypeError
      [] name = "mailchimp_set_content" ->
            Payload(Stringify(
                [campaign_id |-> a.campaign_id,
                 message |-> Str("Content set. Use mailchimp_send_test to preview or mailchimp_send_campaign to send.")]))
      [] name = "mailchimp_send_test" ->
            Payload(Stringify(
                [campaign_id |-> a.campaign_id,
                 sent_to |-> a.test_emails,
                 message |-> Str("Test email sent. Check your inbox.")]))
      [] name = "mailchimp_send_campaign" ->
            Payload(Stringify(
                [campaign_id |-> a.campaign_id,
                 message |-> Str("Campaign sent! Delivery may take a few minutes.")]))
      [] name = "mailchimp_schedule_campaign" ->
            Payload(Stringify(
                [campaign_id |-> a.campaign_id,
                 scheduled_for |-> a.schedule_time,
                 message |-> Str("Scheduled.")]))
      [] name = "mailchimp_get_report" ->
            IF CanRead(data) THEN Payload(mcp_reportSummary(a, data))
            ELSE HandlerTypeError
      [] name = "mailchimp_delete_campaign" ->
            Payload(Stringify([campaign_id |-> a.campaign_id, message |-> Str("Deleted.")]))

----------------------------------------------------------------------------
(* Side-effect classification: the annotations of registerTool *)

Annotations(readOnly, destructive, idempotent) ==
    [readOnlyHint |-> readOnly, destructiveHint |-> destructive,
     idempotentHint |-> idempotent, openWorldHint |-> FALSE]

index_annotations(name) ==
    CASE name = "mailchimp_list_audiences" -> Annotations(TRUE, FALSE, TRUE)
      [] name = "mailchimp_list_campaigns" -> Annotations(TRUE, FALSE, TRUE)
      [] name = "mailchimp_create_campaign" -> Annotations(FALSE, FALSE, FALSE)
      [] name = "mailchimp_set_campaign_content" -> Annotations(FALSE, FALSE, TRUE)
      [] name = "mailchimp_send_test" -> Annotations(FALSE, FALSE, FALSE)
      [] name = "mailchimp_send_campaign" -> Annotations(FALSE, TRUE, FALSE)
      [] name = "mailchimp_schedule_campaign" -> Annotations(FALSE, FALSE, TRUE)
      [] name = "mailchimp_get_campaign_report" -> Annotations(TRUE, FALSE, TRUE)
      [] name = "mailchimp_delete_campaign" -> Annotations(FALSE, TRUE, FALSE)

mcp_annotations(name) ==
    CASE name = "mailchimp_list_audiences" -> Annotations(TRUE, FALSE, TRUE)
      [] name = "mailchimp_list_campaigns" -> Annotations(TRUE, FALSE, TRUE)
      [] name = "mailchimp_create_campaign" -> Annotations(FALSE, FALSE, FALSE)
      [] name = "mailchimp_set_content" -> Annotations(FALSE, FALSE, TRUE)
      [] name = "mailchimp_send_test" -> Annotations(FALSE, FALSE, FALSE)
      [] name = "mailchimp_send_campaign" -> Annotations(FALSE, TRUE, FALSE)
      [] name = "mailchimp_schedule_campaign" -> Annotations(FALSE, FALSE, TRUE)
      [] name = "mailchimp_get_report" -> Annotations(TRUE, FALSE, TRUE)
      [] name = "mailchimp_delete_campaign" -> Annotations(FALSE, TRUE, FALSE)

----------------------------------------------------------------------------
(* The deployed entry point *)

Entries == {"standalone", "serverless"}

Tools(e) == IF e = "standalone" THEN Range(index_tools) ELSE Range(mcp_tools)
InputSchema(e, name) ==
    IF e = "standalone" THEN index_inputSchema(name) ELSE mcp_inputSchema(name)
RequestOf(e, name, a) ==
    IF e = "standalone" THEN index_request(name, a) ELSE mcp_request(name, a)
ShapeOf(e, name, a, data) ==
    IF e = "standalone" THEN index_shape(name, a, data) ELSE mcp_shape(name, a, data)
AnnotationsOf(e, name) ==
    IF e = "standalone" THEN index_annotations(name) ELSE mcp_annotations(name)
NoKey(e, key) ==
    IF e = "standalone" THEN mailchimpRequest_noKey(key) ELSE mc_noKey(key)
ConfigError(e) ==
    IF e = "standalone" THEN mailchimpRequest_configError ELSE mc_configError
FetchOf(e, key, dc, options) ==
    IF e = "standalone" THEN mailchimpRequest_fetch(key, dc, options)
    ELSE mc_fetch(key, options)
\* new URL(`${BASE_URL}${options.path}`), new URL(`${baseUrl}${path}`): does
\* not throw
UrlOk(e, key, dc) ==
    IF e = "standalone" THEN UrlHostOk(dc) ELSE UrlHostOk(getApiConfig(key).dc)
ResponseOf(e, resp) ==
    IF e = "standalone" THEN mailchimpRequest_response(resp) ELSE mc_response(resp)

----------------------------------------------------------------------------
(* Inputs the environment may supply *)

Inv == 1..NumInv

\* all strings over cs of length at most n
RECURSIVE StringsUpTo(_, _)
StringsUpTo(cs, n) ==
    IF n = 0 THEN {<<>>}
    ELSE LET shorter == StringsUpTo(cs, n - 1)
         IN shorter \cup {Append(w, c) : w \in shorter, c \in cs}

CredChars == {"k", "-", "u", "U", " ", ":"}
\* credentials enumerated for the region resolution
AllKeys == StringsUpTo(CredChars, MaxCredLen)
\* credentials the gateway is run with: unset, <key>-<dc>, a key without
\* <dc>, and one whose <dc> is no host name
SampleKeys == {<<>>, <<"k", "-", "u">>, <<"k">>, <<"k", "-", ":">>}

GoodEmail == <<"a", "@", "b", ".", "c", "c">>
OtherEmail == <<"a", ".", "b", "+", "1", "@", "b", "-", "2", ".", "a", ".", "c", "a">>
BadEmails ==
    {<<"a", "@", "b">>, <<"@", "b", ".", "c", "c">>, <<".", "a", "@", "b", ".", "c", "c">>,
     <<"a", ".", ".", "a", "@", "b", ".", "c", "c">>, <<"a", "@", "b", ".", "c">>,
     <<"a", "b">>, <<>>}

\* test_emails values: n copies of a well-formed address, and lists holding
\* one malformed address
EmailLists ==
    {Arr([i \in 1..n |-> Chars(IF i = 2 THEN OtherEmail ELSE GoodEmail)]) : n \in 0..MaxEmails}
    \cup {Arr(<<Chars(GoodEmail), Chars(b)>>) : b \in BadEmails}

GoodTime == "2026-02-14T10:00:00Z"

\* campaign ids: the kind the remote platform assigns, and strings with
\* characters the URL parser acts on
PlainId == Chars(<<"c", "1">>)
QueryId == Chars(<<"a", "?", "b", "=", "1">>)
DottedId == Chars(<<".", "a", "/", ".">>)
\* ids: none, a plain one, a number, and strings with characters the URL
\* parser acts on
IdValues ==
    {Undefined, PlainId, Num(7), QueryId, DottedId,
     Chars(<<".", ".", "/", "l", "i", "s", "t", "s">>), Chars(<<".", ".">>),
     Chars(<<"a", "#", "b">>), Chars(<<>>)}

\* raw argument mappings per field; Undefined stands for an absent key
ArgSamples(name) ==
    CASE name = "mailchimp_list_audiences" -> {<<>>, [verbose |-> Str("yes")]}
      [] name = "mailchimp_list_campaigns" ->
            {[status |-> st, count |-> c] :
                st \in {Undefined, Str("save"), Str("draft")},
                c \in {Undefined, Num(0), Num(1), Num(100), Num(101), Frac(3, 2), Str("20")}}
      [] name = "mailchimp_create_campaign" ->
            {[list_id |-> l, subject |-> sj, preview_text |-> pv, title |-> ti,
              from_name |-> fr, reply_to |-> rt] :
                l \in {Undefined, Str("L1")}, sj \in {Undefined, Str("S")},
                pv \in {Undefined, Str("P")}, ti \in {Undefined, Str("T"), Str("")},
                fr \in {Undefined, Str("F")},
                rt \in {Undefined, Chars(GoodEmail), Chars(OtherEmail)}
                          \cup {Chars(b) : b \in BadEmails}}
      [] name \in {"mailchimp_set_campaign_content", "mailchimp_set_content"} ->
            {[campaign_id |-> c, html |-> h] :
                c \in {Undefined, PlainId, QueryId, DottedId},
                h \in {Undefined, Str("<p>hi</p>"), Str("")}}
      [] name = "mailchimp_send_test" ->
            {[campaign_id |-> c, test_emails |-> es, send_type |-> ty] :
                c \in {Undefined, PlainId},
                es \in {Undefined} \cup EmailLists,
                ty \in {Undefined, Str("plaintext"), Str("pdf")}}
      [] name = "mailchimp_schedule_campaign" ->
            {[campaign_id |-> c, schedule_time |-> ts] :
                c \in {Undefined, PlainId},
                ts \in {Undefined, Str(GoodTime), Str("tomorrow"), Str("")}}
      [] OTHER -> {[campaign_id |-> c] : c \in IdValues}

\* every name either entry point registers
AllNames == Range(index_tools) \cup Range(mcp_tools)

\* error bodies of the remote platform (problem+json), and bodies that carry
\* no usable detail
ErrorBodies ==
    {NotJson, Null, EmptyObj,
     Obj([detail |-> Str("Campaign not found")]),
     Obj([title |-> Str("Resource Not Found")]),
     Obj([detail |-> Str("Campaign not found"), title |-> Str("Resource Not Found")]),
     Obj([detail |-> Str(""), title |-> Str("Resource Not Found")])}

Stats == Obj([member_count |-> Num(250), unsubscribe_count |-> Num(3),
              open_rate |-> Frac(423, 1000), click_rate |-> Frac(81, 1000)])
ListItem == Obj([id |-> Str("L1"), name |-> Str("News"), stats |-> Stats])
\* audiences of a GET /lists response: rates that need rounding (4.56 % up,
\* 6.25 % a tie), rates at the ends of the range, rates that are decimal
\* ties (0.15 %, 0.25 %: the doubles decide them), rates that are no
\* fraction of 0..1 (a numeral as text, a negative number, a number inside
\* an array, minus zero as text, a negative number that rounds to zero)
\* and no click rate at all
ListBodies ==
    {Obj([lists |-> Arr(<<>>)]), Obj([lists |-> Arr(<<ListItem>>)]),
     Obj([lists |-> Arr(<<ListItem,
                          Obj([id |-> Str("L2"), name |-> Str("Old"),
                               stats |-> Obj([member_count |-> Num(0),
                                              open_rate |-> Frac(456, 10000),
                                              click_rate |-> Frac(1, 16)])])>>)]),
     Obj([lists |-> Arr(<<Obj([id |-> Str("L3"), name |-> Str("New"),
                               stats |-> Obj([member_count |-> Num(12),
                                              open_rate |-> Num(0),
                                              click_rate |-> Num(1)])])>>)]),
     Obj([lists |-> Arr(<<Obj([id |-> Str("L4"), name |-> Str("Ties"),
                               stats |-> Obj([member_count |-> Num(3),
                                              open_rate |-> Frac(15, 10000),
                                              click_rate |-> Frac(25, 10000)])])>>)]),
     Obj([lists |-> Arr(<<Obj([id |-> Str("L5"), name |-> Str("Text"),
                               stats |-> Obj([member_count |-> Num(1),
                                              open_rate |-> Chars(<<"0", ".", "5">>),
                                              click_rate |-> Frac(-1, 10)])]),
                          Obj([id |-> Str("L6"), name |-> Str("Arr"),
                               stats |-> Obj([member_count |-> Num(2),
                                              open_rate |-> Arr(<<Num(5)>>)])]),
                          Obj([id |-> Str("L7"), name |-> Str("Zero"),
                               stats |-> Obj([member_count |-> Num(0),
                                              open_rate |-> Chars(<<"-", "0">>),
                                              click_rate |-> Frac(-1, 4000)])])>>)])}

Draft ==
    Obj([id |-> Str("c1"), status |-> Str("save"), create_time |-> Str("2026-01-01"),
         settings |-> EmptyObj])
Sent ==
    Obj([id |-> Str("c2"), status |-> Str("sent"), create_time |-> Str("2026-01-01"),
         send_time |-> Str("2026-01-02"), emails_sent |-> Num(10),
         settings |-> Obj([subject_line |-> Str("S"), title |-> Str("T")]),
         report_summary |-> Obj([unique_opens |-> Num(4), subscriber_clicks |-> Num(0)])])
CampaignBodies ==
    {Obj([campaigns |-> Arr(<<>>)]), Obj([campaigns |-> Arr(<<Draft>>)]),
     Obj([campaigns |-> Arr(<<Sent, Draft>>)])}

ReportBodies ==
    LET opens == Obj([unique_opens |-> Num(4), open_rate |-> Frac(2, 5)])
        clicks == Obj([unique_subscriber_clicks |-> Num(1), click_rate |-> Frac(1, 10)])
    IN {Obj([subject_line |-> Str("S"), emails_sent |-> Num(10), opens |-> opens,
             clicks |-> clicks, bounces |-> Obj([hard_bounces |-> Num(0)]),
             unsubscribed |-> Num(0)]),
        Obj([subject_line |-> Str("S"), emails_sent |-> Num(10), clicks |-> clicks,
             bounces |-> Obj([hard_bounces |-> Num(0)]), unsubscribed |-> Num(0)]),
        Obj([subject_line |-> Str("S"), emails_sent |-> Num(10), opens |-> opens,
             bounces |-> Obj([hard_bounces |-> Num(0)]), unsubscribed |-> Num(0)])}

Bodies == ErrorBodies \cup ListBodies \cup CampaignBodies \cup {Draft, Sent} \cup ReportBodies

Response(status, body) == [kind |-> "response", status |-> status, body |-> body]
Rejected == [kind |-> "reject", status |-> 0, body |-> NotJson]
NoResponse == [kind |-> "none", status |-> 0, body |-> NotJson]

Responses == {Response(st, b) : st \in {200, 204, 400, 404, 500}, b \in Bodies} \cup {Rejected}

----------------------------------------------------------------------------
(* State machine *)

\* McpServer objects: 0 is the module-level `server` of src/src/index.ts,
\* i > 0 is the server createServer() builds for request i in src/api/mcp.ts
Servers == 0..NumInv
ServerOf(e, i) == IF e = "standalone" THEN 0 ELSE i

NoOutcome == [ok |-> FALSE, payload |-> Undefined, name |-> "none", error |-> <<>>]

\* failures raised by the protocol library before a handler runs
ToolNotFound(name) == Failed("McpError", <<Str("Tool not found: "), Str(name)>>)
InvalidArguments(name) == Failed("McpError", <<Str("Invalid arguments for tool "), Str(name)>>)

\* a value the client returned or threw, as the handler's caller sees it
ClientFailure(r) == Failed(r.name, r.error)

\* the answer to tools/list: every registered tool with its annotations
Listing(e) ==
    [t |-> "tools",
     tools |-> {[name |-> n, annotations |-> AnnotationsOf(e, n)] : n \in Tools(e)}]

\* the fetch() call appends one request to what the invocation has sent
Issue(sent, request) == Append(sent, request)

TypeOK ==
    /\ entry \in Entries
    /\ urlParser \in UrlParsers
    /\ apiKey \in AllKeys
    /\ pc \in [Inv -> {"idle", "connected", "handler", "awaiting", "reading", "done",
                       "returned"}]
    /\ closed \in SUBSET Inv
    /\ tool \in [Inv -> AllNames \cup {"", "tools/list"}]
    /\ bodyRead \in [Inv -> BOOLEAN]
    /\ serverTransport \in [Servers -> SUBSET Inv]
    /\ \A i \in Inv : Len(outbound[i]) >= 0

InitWith(keys, parsers) ==
    /\ entry \in Entries
    /\ urlParser \in parsers
    /\ apiKey \in keys
    /\ dataCenter = DATA_CENTER(apiKey)
    /\ pc = [i \in Inv |-> "idle"]
    /\ tool = [i \in Inv |-> ""]
    /\ args = [i \in Inv |-> <<>>]
    /\ outbound = [i \in Inv |-> <<>>]
    /\ bodyRead = [i \in Inv |-> FALSE]
    /\ outcome = [i \in Inv |-> NoOutcome]
    /\ response = [i \in Inv |-> NoResponse]
    /\ serverTransport = [s \in Servers |-> {}]
    /\ received = [i \in Inv |-> {}]
    /\ closed = {}

Init == InitWith(SampleKeys, UrlParsers)

\* An HTTP POST arrives: a fresh transport is created and the server is
\* connected to it (index.ts: the shared server; mcp.ts: a new server)
HttpPost(i, name, a) ==
    /\ pc[i] = "idle"
    /\ pc' = [pc EXCEPT ![i] = "connected"]
    /\ tool' = [tool EXCEPT ![i] = name]
    /\ args' = [args EXCEPT ![i] = a]
    /\ serverTransport' = [serverTransport EXCEPT ![ServerOf(entry, i)] = {i}]
    /\ UNCHANGED <<entry, urlParser, apiKey, dataCenter, outbound, bodyRead, outcome, response,
                   received, closed>>

\* transport.handleRequest with a tools/list message
ListTools(i) ==
    /\ pc[i] = "connected"
    /\ tool[i] = "tools/list"
    /\ outcome' = [outcome EXCEPT ![i] = Payload(Listing(entry))]
    /\ pc' = [pc EXCEPT ![i] = "done"]
    /\ UNCHANGED <<entry, urlParser, apiKey, dataCenter, tool, args, outbound, bodyRead, response,
                   serverTransport, received, closed>>

\* transport.handleRequest with a tools/call message: the tool is looked up
\* and the arguments are parsed with its inputSchema before the handler runs
CallTool(i) ==
    /\ pc[i] = "connected"
    /\ tool[i] # "tools/list"
    /\ IF tool[i] \notin Tools(entry)
       THEN /\ outcome' = [outcome EXCEPT ![i] = ToolNotFound(tool[i])]
            /\ pc' = [pc EXCEPT ![i] = "done"]
            /\ UNCHANGED args
       ELSE IF ~SchemaOk(InputSchema(entry, tool[i]), args[i])
       THEN /\ outcome' = [outcome EXCEPT ![i] = InvalidArguments(tool[i])]
            /\ pc' = [pc EXCEPT ![i] = "done"]
            /\ UNCHANGED args
       ELSE /\ args' = [args EXCEPT ![i] = SchemaParsed(InputSchema(entry, tool[i]), args[i])]
            /\ pc' = [pc EXCEPT ![i] = "handler"]
            /\ UNCHANGED outcome
    /\ UNCHANGED <<entry, urlParser, apiKey, dataCenter, tool, outbound, bodyRead, response,
                   serverTransport, received, closed>>

\* a handler that keeps track of the campaign: delete is refused, without a
\* request, once an earlier invocation has sent the campaign
RunHandler_sequenced(i) ==
    /\ pc[i] = "handler"
    /\ IF NoKey(entry, apiKey)
       THEN /\ outcome' = [outcome EXCEPT ![i] = ClientFailure(ConfigError(entry))]
            /\ pc' = [pc EXCEPT ![i] = "done"]
            /\ UNCHANGED outbound
       ELSE IF ~UrlOk(entry, apiKey, dataCenter)
       THEN /\ outcome' = [outcome EXCEPT ![i] = ClientFailure(InvalidUrl)]
            /\ pc' = [pc EXCEPT ![i] = "done"]
            /\ UNCHANGED outbound
       ELSE IF /\ tool[i] = "mailchimp_delete_campaign"
               /\ \E k \in Inv \ {i} :
                     /\ tool[k] = "mailchimp_send_campaign"
                     /\ pc[k] = "returned"
                     /\ outcome[k].ok
       THEN /\ outcome' = [outcome EXCEPT ![i] =
                    Failed("Error", <<Str("Campaign already sent")>>)]
            /\ pc' = [pc EXCEPT ![i] = "done"]
            /\ UNCHANGED outbound
       ELSE /\ outbound' = [outbound EXCEPT ![i] =
                    Issue(@, FetchOf(entry, apiKey, dataCenter,
                                     RequestOf(entry, tool[i], args[i])))]
            /\ pc' = [pc EXCEPT ![i] = "awaiting"]
            /\ UNCHANGED outcome
    /\ UNCHANGED <<entry, urlParser, apiKey, dataCenter, tool, args, bodyRead, response,
                   serverTransport, received, closed>>

\* The handler runs up to `await fetch(...)`: the credential check, the
\* URL, then the one request
RunHandler(i) ==
    /\ pc[i] = "handler"
    /\ IF NoKey(entry, apiKey)
       THEN /\ outcome' = [outcome EXCEPT ![i] = ClientFailure(ConfigError(entry))]
            /\ pc' = [pc EXCEPT ![i] = "done"]
            /\ UNCHANGED outbound
       ELSE IF ~UrlOk(entry, apiKey, dataCenter)
       THEN /\ outcome' = [outcome EXCEPT ![i] = ClientFailure(InvalidUrl)]
            /\ pc' = [pc EXCEPT ![i] = "done"]
            /\ UNCHANGED outbound
       ELSE /\ outbound' = [outbound EXCEPT ![i] =
                    Issue(@, FetchOf(entry, apiKey, dataCenter,
                                     RequestOf(entry, tool[i], args[i])))]
            /\ pc' = [pc EXCEPT ![i] = "awaiting"]
            /\ UNCHANGED outcome
    /\ UNCHANGED <<entry, urlParser, apiKey, dataCenter, tool, args, bodyRead, response,
                   serverTransport, received, closed>>

\* what the handler hands back for what the client returned or threw
Settled(i, r) ==
    IF r.ok THEN ShapeOf(entry, tool[i], args[i], r.value) ELSE ClientFailure(r)

\* a call that failed at once is tried again: the request is issued again
Respond_retry(i, resp) ==
    /\ pc[i] = "awaiting"
    /\ response' = [response EXCEPT ![i] = resp]
    /\ LET r == ResponseOf(entry, resp)
       IN /\ bodyRead' = [bodyRead EXCEPT ![i] = r.read]
          /\ IF r.read
             THEN /\ pc' = [pc EXCEPT ![i] = "reading"]
                  /\ UNCHANGED <<outcome, outbound>>
             ELSE /\ outcome' = [outcome EXCEPT ![i] = Settled(i, r)]
                  /\ outbound' = [outbound EXCEPT ![i] =
                        IF r.ok THEN @ ELSE Issue(@, @[Len(@)])]
                  /\ pc' = [pc EXCEPT ![i] = "done"]
    /\ UNCHANGED <<entry, urlParser, apiKey, dataCenter, tool, args, serverTransport, received,
                   closed>>

\* fetch settles.  A rejection, or status 204, ends the client at once and
\* the handler shapes its result; for any other status response.json() is
\* called and the handler waits for the body
Respond(i, resp) ==
    /\ pc[i] = "awaiting"
    /\ response' = [response EXCEPT ![i] = resp]
    /\ LET r == ResponseOf(entry, resp)
       IN /\ bodyRead' = [bodyRead EXCEPT ![i] = r.read]
          /\ IF r.read
             THEN /\ pc' = [pc EXCEPT ![i] = "reading"]
                  /\ UNCHANGED outcome
             ELSE /\ outcome' = [outcome EXCEPT ![i] = Settled(i, r)]
                  /\ pc' = [pc EXCEPT ![i] = "done"]
    /\ UNCHANGED <<entry, urlParser, apiKey, dataCenter, tool, args, outbound, serverTransport,
                   received, closed>>

\* response.json() settles: the client turns status and body into a value
\* or a thrown error, and the handler shapes the value into the result
ReadBody(i) ==
    /\ pc[i] = "reading"
    /\ outcome' = [outcome EXCEPT ![i] = Settled(i, ResponseOf(entry, response[i]))]
    /\ pc' = [pc EXCEPT ![i] = "done"]
    /\ UNCHANGED <<entry, urlParser, apiKey, dataCenter, tool, args, outbound, bodyRead, response,
                   serverTransport, received, closed>>

\* handleRequest ends: the result is sent through a transport of the
\* server, the one the request came in on or the one the server is attached
\* to now (which of the two depends on the protocol library's version); a
\* closed transport delivers nothing
Return(i) ==
    /\ pc[i] = "done"
    /\ \E via \in {{i}, serverTransport[ServerOf(entry, i)]} :
          received' = [c \in Inv |->
                          IF c \in via \ closed
                          THEN received[c] \cup {[from |-> i, result |-> outcome[i]]}
                          ELSE received[c]]
    /\ pc' = [pc EXCEPT ![i] = "returned"]
    /\ UNCHANGED <<entry, urlParser, apiKey, dataCenter, tool, args, outbound, bodyRead, outcome,
                   response, serverTransport, closed>>

\* res emits 'close', in a turn of its own after the response has ended, or
\* earlier when the caller goes away while the request is being handled:
\* transport.close() runs and its close handler detaches the server
Close(i) ==
    /\ pc[i] # "idle"
    /\ i \notin closed
    /\ closed' = closed \cup {i}
    /\ serverTransport' = [serverTransport EXCEPT ![ServerOf(entry, i)] = {}]
    /\ UNCHANGED <<entry, urlParser, apiKey, dataCenter, pc, tool, args, outbound, bodyRead, outcome,
                   response, received>>

\* The request is over; nothing of it is kept
Forget(i) ==
    /\ pc[i] = "returned"
    /\ i \in closed
    /\ pc' = [pc EXCEPT ![i] = "idle"]
    /\ tool' = [tool EXCEPT ![i] = ""]
    /\ args' = [args EXCEPT ![i] = <<>>]
    /\ outbound' = [outbound EXCEPT ![i] = <<>>]
    /\ bodyRead' = [bodyRead EXCEPT ![i] = FALSE]
    /\ outcome' = [outcome EXCEPT ![i] = NoOutcome]
    /\ response' = [response EXCEPT ![i] = NoResponse]
    /\ received' = [received EXCEPT ![i] = {}]
    /\ closed' = closed \ {i}
    /\ UNCHANGED <<entry, urlParser, apiKey, dataCenter, serverTransport>>

\* One invocation at a time, every tool name, argument mapping and response
Next ==
    \/ \E name \in AllNames : \E a \in ArgSamples(name) : HttpPost(1, name, a)
    \/ HttpPost(1, "tools/list", <<>>)
    \/ ListTools(1)
    \/ CallTool(1)
    \/ RunHandler(1)
    \/ \E resp \in Responses : Respond(1, resp)
    \/ ReadBody(1)
    \/ Return(1)
    \/ Close(1)
    \/ Forget(1)

Spec == Init /\ [][Next]_vars

----------------------------------------------------------------------------
(* Region resolution: every credential string, one simple call *)

NextRegion ==
    \/ HttpPost(1, "mailchimp_list_audiences", <<>>)
    \/ CallTool(1)
    \/ RunHandler(1)
    \/ \E resp \in {Response(200, Obj([lists |-> Arr(<<>>)])), Rejected} : Respond(1, resp)
    \/ ReadBody(1)
    \/ Return(1)
    \/ Close(1)
    \/ Forget(1)

SpecRegion == InitWith(AllKeys, {"standard"}) /\ [][NextRegion]_vars

----------------------------------------------------------------------------
(* Concurrent invocations: the steps of several requests interleave *)

ConcCalls ==
    {[name |-> "mailchimp_send_campaign", a |-> [campaign_id |-> PlainId]],
     [name |-> "mailchimp_delete_campaign", a |-> [campaign_id |-> Chars(<<"c", "2">>)]]}

ConcResponses ==
    {Response(204, NotJson), Response(404, Obj([detail |-> Str("Campaign not found")]))}

NextConc ==
    \E i \in Inv :
        \/ \E call \in ConcCalls : HttpPost(i, call.name, call.a)
        \/ CallTool(i)
        \/ RunHandler(i)
        \/ \E resp \in ConcResponses : Respond(i, resp)
        \/ ReadBody(i)
        \/ Return(i)
        \/ Close(i)
        \/ Forget(i)

SpecConc == InitWith({<<"k", "-", "u">>}, {"standard"}) /\ [][NextConc]_vars

----------------------------------------------------------------------------
(* Set content: several invocations on the content of one campaign *)

\* the name under which each entry point registers set content
SetContentName(e) ==
    IF e = "standalone" THEN "mailchimp_set_campaign_content" ELSE "mailchimp_set_content"

ContentCalls ==
    {[campaign_id |-> PlainId, html |-> h] :
        h \in {Str("<p>A</p>"), Str("<p>B</p>"), Undefined}}

ContentResponses ==
    {Response(200, EmptyObj), Response(404, Obj([detail |-> Str("Campaign not found")]))}

NextContent ==
    \E i \in Inv :
        \/ \E a \in ContentCalls : HttpPost(i, SetContentName(entry), a)
        \/ CallTool(i)
        \/ RunHandler(i)
        \/ \E resp \in ContentResponses : Respond(i, resp)
        \/ ReadBody(i)
        \/ Return(i)
        \/ Close(i)
        \/ Forget(i)

SpecContent == InitWith({<<"k", "-", "u">>}, {"standard"}) /\ [][NextContent]_vars

----------------------------------------------------------------------------
(* Campaign lifecycle: test, send and delete of one campaign, in any order *)

LifecycleCalls ==
    {[name |-> "mailchimp_send_test",
      a |-> [campaign_id |-> PlainId, test_emails |-> Arr(<<Chars(GoodEmail)>>),
             send_type |-> Undefined]],
     [name |-> "mailchimp_send_campaign", a |-> [campaign_id |-> PlainId]],
     [name |-> "mailchimp_delete_campaign", a |-> [campaign_id |-> PlainId]]}

NextLifecycle ==
    \E i \in Inv :
        \/ \E call \in LifecycleCalls : HttpPost(i, call.name, call.a)
        \/ CallTool(i)
        \/ RunHandler(i)
        \/ \E resp \in ConcResponses : Respond(i, resp)
        \/ ReadBody(i)
        \/ Return(i)
        \/ Close(i)
        \/ Forget(i)

SpecLifecycle == InitWith({<<"k", "-", "u">>}, {"standard"}) /\ [][NextLifecycle]_vars

----------------------------------------------------------------------------
(* Properties *)

Finished(i) == pc[i] \in {"done", "returned"}
CatalogCall(i) == tool[i] \in Tools(entry)

\* the argument mapping of invocation i satisfied the input contract of its
\* tool (a rejected mapping is kept as it came; a parsed one satisfies it)
ContractMet(i) == CatalogCall(i) /\ SchemaOk(InputSchema(entry, tool[i]), args[i])

IsConfigFailure(o) ==
    /\ ~o.ok
    /\ Len(o.error) = 1
    /\ o.error[1] \in
          {Str("MAILCHIMP_API_KEY environment variable is not set. Format: <key>-<dc> (e.g., abc123-us14)"),
           Str("MAILCHIMP_API_KEY not set. Format: <key>-<dc>")}

\* C1 as stated: with no credential configured, every invocation of a
\* catalog operation, whatever its argument mapping, ends in the
\* configuration error and issues no request.
C1_Original ==
    \A i \in Inv :
        (apiKey = <<>> /\ CatalogCall(i)) =>
            /\ outbound[i] = <<>>
            /\ Finished(i) => IsConfigFailure(outcome[i])

\* C1 amended: with no credential configured, no invocation of a catalog
\* operation ever issues a request, and every invocation whose argument
\* mapping satisfies the input contract ends in the configuration error
\* (a mapping that violates the contract is rejected earlier, as invalid).
C1_NoCredentialNoRequest ==
    \A i \in Inv :
        (apiKey = <<>> /\ CatalogCall(i)) =>
            /\ outbound[i] = <<>>
            /\ pc[i] \notin {"awaiting", "reading"}
            /\ (Finished(i) /\ ContractMet(i)) => IsConfigFailure(outcome[i])

\* C1 witness: a well-formed send campaign call with no credential has ended in
\* the configuration error without a request
C1_Witness ==
    \E i \in Inv :
        /\ apiKey = <<>>
        /\ pc[i] = "done"
        /\ tool[i] = "mailchimp_send_campaign"
        /\ ContractMet(i)
        /\ IsConfigFailure(outcome[i])
        /\ outbound[i] = <<>>

NonSuccess(resp) == resp.kind = "response" /\ (resp.status < 200 \/ resp.status > 299)

HasKey(body, k) == body.t = "obj" /\ k \in DOMAIN body.o

GenericDetail == {Str("Unknown error"), Str("Error")}

\* the failure o carries the status code and ends with detail d
Carries(o, status, d) ==
    /\ ~o.ok
    /\ Len(o.error) = 4
    /\ o.error[2] = Num(status)
    /\ o.error[4] = d

\* C2: a non-success status, whatever the body, ends in a failure carrying
\* the status and the body's detail if present, else its title if present,
\* else a generic message.  The clients read the body as JSON before they
\* look at the status, so a body that is no JSON text, or is null, ends in
\* the parse or type error, which carries no status.
C2_Original ==
    \A i \in Inv :
        (pc[i] = "done" /\ NonSuccess(response[i])) =>
            LET b == response[i].body
            IN IF HasKey(b, "detail") THEN Carries(outcome[i], response[i].status, b.o.detail)
               ELSE IF HasKey(b, "title")
                    THEN Carries(outcome[i], response[i].status, b.o.title)
               ELSE \E g \in GenericDetail : Carries(outcome[i], response[i].status, g)

NoContentTools ==
    {"mailchimp_send_campaign", "mailchimp_schedule_campaign", "mailchimp_send_test",
     "mailchimp_delete_campaign"}

\* C3: for send, schedule, send test and delete, a 204 response makes the
\* client return an empty object without reading the body, and the
\* invocation ends in a success payload.
C3_NoContentIsSuccess ==
    \A i \in Inv :
        (pc[i] = "done" /\ tool[i] \in NoContentTools
            /\ response[i].kind = "response" /\ response[i].status = 204) =>
            /\ outcome[i].ok
            /\ ~bodyRead[i]
            /\ ResponseOf(entry, response[i]).ok
            /\ ResponseOf(entry, response[i]).value = EmptyObj
            /\ Get(outcome[i].payload, "campaign_id") = args[i].campaign_id

\* C3 witness: delete campaign answered 204 has ended in a success payload
C3_Witness ==
    \E i \in Inv :
        /\ pc[i] = "done"
        /\ tool[i] = "mailchimp_delete_campaign"
        /\ response[i] = Response(204, NotJson)
        /\ outcome[i].ok
        /\ ~bodyRead[i]

\* C4: an invocation issues at most one outbound request; once it has an
\* outcome (a remote failure, a transport failure, a malformed body
\* included) it has issued exactly the one request it was answered for.
C4_AtMostOneRequest ==
    \A i \in Inv :
        /\ Len(outbound[i]) <= 1
        /\ (Finished(i) /\ response[i].kind # "none") => Len(outbound[i]) = 1
        /\ pc[i] \in {"awaiting", "reading"} => Len(outbound[i]) = 1

\* C4 witness: send campaign has failed (transport failure, 500) after one request
C4_Witness ==
    \E i \in Inv :
        /\ pc[i] = "done"
        /\ tool[i] = "mailchimp_send_campaign"
        /\ response[i] \in {Rejected, Response(500, NotJson), Response(500, EmptyObj)}
        /\ ~outcome[i].ok
        /\ Len(outbound[i]) = 1

\* the fields the input contract of each operation requires
RequiredFields(name) ==
    CASE name \in {"mailchimp_list_audiences", "mailchimp_list_campaigns"} -> {}
      [] name = "mailchimp_create_campaign" -> {"list_id", "subject", "from_name", "reply_to"}
      [] name \in {"mailchimp_set_campaign_content", "mailchimp_set_content"} ->
            {"campaign_id", "html"}
      [] name = "mailchimp_send_test" -> {"campaign_id", "test_emails"}
      [] name = "mailchimp_schedule_campaign" -> {"campaign_id", "schedule_time"}
      [] OTHER -> {"campaign_id"}

Malformed(v) == v.t # "chars" \/ ~IsEmail(v.c)

\* the argument mapping a violates the contract of operation name in one of
\* the ways C5 lists
ViolatesContract(name, a) ==
    \/ \E k \in RequiredFields(name) : Arg(a, k) = Undefined
    \/ /\ name = "mailchimp_list_campaigns"
       /\ Arg(a, "count") # Undefined
       /\ LET c == Arg(a, "count")
          IN c.t # "num" \/ c.n % c.d # 0 \/ c.n \div c.d < 1 \/ c.n \div c.d > 100
    \/ /\ name = "mailchimp_send_test"
       /\ Arg(a, "test_emails").t = "arr"
       /\ LET es == Arg(a, "test_emails").a
          IN Len(es) < 1 \/ Len(es) > 5 \/ \E n \in 1..Len(es) : Malformed(es[n])
    \/ /\ name = "mailchimp_create_campaign"
       /\ Arg(a, "reply_to") # Undefined
       /\ Malformed(Arg(a, "reply_to"))

\* C5: an invocation whose arguments violate the declared input contract is
\* rejected with a validation error before any request is built: its handler
\* never runs and it issues no request.
C5_InvalidInputNoRequest ==
    \A i \in Inv :
        (CatalogCall(i) /\ pc[i] # "connected" /\ ViolatesContract(tool[i], args[i])) =>
            /\ outbound[i] = <<>>
            /\ Finished(i)
            /\ outcome[i] = InvalidArguments(tool[i])

\* C5 witness: list campaigns with count 101 has been rejected, credential set
C5_Witness ==
    \E i \in Inv :
        /\ pc[i] = "done"
        /\ tool[i] = "mailchimp_list_campaigns"
        /\ Arg(args[i], "count") = Num(101)
        /\ apiKey # <<>>
        /\ outcome[i] = InvalidArguments(tool[i])
        /\ outbound[i] = <<>>

\* the schedule_time samples that are well-formed date-time strings
WellFormedDateTime(v) == v = Str(GoodTime)

\* C6: a POST to /campaigns/{id}/actions/schedule is issued only when
\* schedule_time is a well-formed date-time string; any other schedule_time
\* is rejected before a request is built.
C6_ScheduleTimeValidated ==
    \A i \in Inv :
        tool[i] = "mailchimp_schedule_campaign" =>
            \A n \in 1..Len(outbound[i]) :
                /\ outbound[i][n].method = "POST"
                /\ Last(outbound[i][n].path) = Seg.schedule
                /\ WellFormedDateTime(Get(outbound[i][n].body, "schedule_time"))

\* the region C7 describes: what follows the last '-', or the default
\* region when the credential has no '-' or nothing after its last '-'
ClaimedRegion(key) ==
    LET dashes == {n \in 1..Len(key) : key[n] = "-"}
        last == CHOOSE n \in dashes : \A m \in dashes : m <= n
    IN IF dashes = {} THEN DefaultDataCenter
       ELSE IF last = Len(key) THEN DefaultDataCenter
       ELSE SubSeq(key, last + 1, Len(key))

\* C7: every request goes to the region that follows the last '-' of the
\* credential, and to the default region when the credential has no '-' or
\* nothing after its last '-'.
C7_RegionFromCredential ==
    \A i \in Inv :
        \A n \in 1..Len(outbound[i]) : outbound[i][n].host = UrlHost(ClaimedRegion(apiKey))

\* invocation i is being handled and its caller has not gone away
InFlight(i) ==
    /\ pc[i] \in {"connected", "handler", "awaiting", "reading", "done"}
    /\ i \notin closed

\* C8: invocations in flight share no mutable state: the server an in-flight
\* invocation is connected through stays attached to that invocation's
\* transport, and a caller receives only the result of its own invocation.
C8_NoSharedState ==
    /\ \A i \in Inv : InFlight(i) => serverTransport[ServerOf(entry, i)] = {i}
    /\ \A c \in Inv : \A m \in received[c] : m.from = c

\* C9: the listing exposes a classification for every tool; send, schedule
\* and delete are exposed as destructive or as not idempotent; list
\* audiences, list campaigns and get report are exposed as read-only.
C9_Classification ==
    \A i \in Inv :
        (pc[i] = "done" /\ tool[i] = "tools/list") =>
            \A e \in outcome[i].payload.tools :
                /\ e.name \in {"mailchimp_send_campaign", "mailchimp_schedule_campaign",
                               "mailchimp_delete_campaign"} =>
                        (e.annotations.destructiveHint \/ ~e.annotations.idempotentHint)
                /\ e.name \in {"mailchimp_list_audiences", "mailchimp_list_campaigns",
                               "mailchimp_get_campaign_report", "mailchimp_get_report"} =>
                        e.annotations.readOnlyHint

\* the keys of the output object of each shaping operation
OutputKeys(e, name) ==
    CASE name = "mailchimp_list_campaigns" ->
            {"id", "title", "subject", "status", "created", "sent", "emails_sent", "opens",
             "clicks"}
      [] name = "mailchimp_create_campaign" ->
            IF e = "standalone" THEN {"campaign_id", "status", "subject", "title", "message"}
            ELSE {"campaign_id", "status", "subject", "next"}
      [] name = "mailchimp_get_campaign_report" ->
            {"campaign_id", "subject", "emails_sent", "opens", "open_rate", "clicks",
             "click_rate", "bounces", "unsubscribes"}
      [] name = "mailchimp_get_report" ->
            {"campaign_id", "subject", "emails_sent", "opens", "open_rate", "clicks",
             "click_rate", "unsubscribes"}

\* the successful remote responses of each shaping operation: campaign
\* lists, a created campaign with the settings it was created with, reports
\* with and without their optional sub-objects
ShapedBodies(name) ==
    CASE name = "mailchimp_list_campaigns" -> CampaignBodies
      [] name = "mailchimp_create_campaign" -> {Sent}
      [] name \in {"mailchimp_get_campaign_report", "mailchimp_get_report"} -> ReportBodies
      [] OTHER -> {}

\* C10: the output of list campaigns, create campaign and get report has
\* the same keys for every successful remote response; an absent optional
\* remote field yields its key with a null value, never an omitted key.
C10_StableKeys ==
    \A i \in Inv :
        (pc[i] = "done" /\ outcome[i].ok /\ response[i].kind = "response"
            /\ response[i].status = 200 /\ response[i].body \in ShapedBodies(tool[i])) =>
            LET out == outcome[i].payload
            IN IF out.t = "arr"
               THEN \A n \in 1..Len(out.a) : DOMAIN out.a[n].o = OutputKeys(entry, tool[i])
               ELSE DOMAIN out.o = OutputKeys(entry, tool[i])

\* a create campaign call with valid input, and a credential whose region
\* makes a URL, has passed the point of its fetch
CreateIssued(i) ==
    /\ tool[i] = "mailchimp_create_campaign"
    /\ ContractMet(i)
    /\ apiKey # <<>>
    /\ UrlOk(entry, apiKey, dataCenter)
    /\ pc[i] \in {"awaiting", "reading", "done", "returned"}

\* the one request of invocation i is a POST to /campaigns whose body has the
\* fixed type, the audience, the subject, the given title and preview text
CreateRequestIs(i, title, preview) ==
    /\ Len(outbound[i]) = 1
    /\ outbound[i][1].method = "POST"
    /\ outbound[i][1].path = <<Seg.api, Seg.campaigns>>
    /\ outbound[i][1].query = <<>>
    /\ LET b == outbound[i][1].body
       IN /\ Get(b, "type") = Str("regular")
          /\ Get(Get(b, "recipients"), "list_id") = args[i].list_id
          /\ Get(Get(b, "settings"), "subject_line") = args[i].subject
          /\ Get(Get(b, "settings"), "title") = title
          /\ Get(Get(b, "settings"), "preview_text") = preview

\* C11 as stated: for every valid create campaign input exactly one POST to
\* /campaigns is issued, with title equal to the given title, or to the
\* subject when no title was supplied, and preview_text equal to the given
\* preview text, or to the empty string when none was supplied.
C11_Original ==
    \A i \in Inv :
        CreateIssued(i) =>
            CreateRequestIs(i,
                IF args[i].title = Undefined THEN args[i].subject ELSE args[i].title,
                IF args[i].preview_text = Undefined THEN Str("") ELSE args[i].preview_text)

\* C11 amended: as stated, except that the title is the subject also when
\* the title supplied is the empty string.
C11_CreateRequest ==
    \A i \in Inv :
        CreateIssued(i) =>
            CreateRequestIs(i,
                IF args[i].title \in {Undefined, Str("")} THEN args[i].subject
                ELSE args[i].title,
                IF args[i].preview_text = Undefined THEN Str("") ELSE args[i].preview_text)

\* C11 witness: a create campaign call without title and preview text has
\* issued its request, title defaulted to the subject, preview text empty
C11_Witness ==
    \E i \in Inv :
        /\ CreateIssued(i)
        /\ args[i].title = Undefined
        /\ args[i].preview_text = Undefined
        /\ CreateRequestIs(i, Str("S"), Str(""))

\* the number a decimal numeral stands for
RECURSIVE ValueOf(_)
ValueOf(c) ==
    IF c = <<>> THEN 0
    ELSE 10 * ValueOf(SubSeq(c, 1, Len(c) - 1))
         + (CHOOSE n \in 0..9 : DecimalDigits[n + 1] = c[Len(c)])

IsDigit(ch) == \E n \in 0..9 : DecimalDigits[n + 1] = ch

\* v is a string of digits, a point, exactly one digit and a percent sign
\* that stands for the tenth of a percent nearest to 100 times the rate
IsPercentOf(v, rate) ==
    /\ v.t = "chars"
    /\ Len(v.c) >= 4
    /\ v.c[Len(v.c)] = "%"
    /\ v.c[Len(v.c) - 2] = "."
    /\ IsDigit(v.c[Len(v.c) - 1])
    /\ \A k \in 1..(Len(v.c) - 3) : IsDigit(v.c[k])
    /\ LET tenths == 10 * ValueOf(SubSeq(v.c, 1, Len(v.c) - 3))
                     + ValueOf(<<v.c[Len(v.c) - 1]>>)
           diff == tenths * rate.d - 1000 * rate.n
       IN 2 * (IF diff < 0 THEN 0 - diff ELSE diff) <= rate.d

\* the rate is a number in the range 0..1
IsFraction(rate) == rate.t = "num" /\ 0 <= rate.n /\ rate.n <= rate.d

\* the lists array of a successful list audiences response
RemoteLists(i) == Get(response[i].body, "lists").a

ListAnswered(i) ==
    /\ tool[i] = "mailchimp_list_audiences"
    /\ pc[i] = "done"
    /\ response[i].kind = "response"
    /\ response[i].status = 200
    /\ response[i].body \in ListBodies

\* C12: the request of list audiences is a GET /lists asking for up to 100
\* entries; for every audience of the response the output entry has
\* subscribers equal to the remote member_count and, for a remote rate
\* that is a fraction in 0..1, open_rate / click_rate equal to the tenth
\* of a percent nearest to the rate times 100, as a string with exactly
\* one decimal place followed by '%'.
C12_AudienceSummary ==
    \A i \in Inv :
        /\ (tool[i] = "mailchimp_list_audiences" /\ outbound[i] # <<>>) =>
              /\ Len(outbound[i]) = 1
              /\ outbound[i][1].method = "GET"
              /\ outbound[i][1].path = <<Seg.api, Seg.lists>>
              /\ outbound[i][1].query = <<>>
              /\ outbound[i][1].params.count = Str("100")
        /\ ListAnswered(i) =>
              /\ outcome[i].ok
              /\ outcome[i].payload.t = "arr"
              /\ Len(outcome[i].payload.a) = Len(RemoteLists(i))
              /\ \A k \in 1..Len(RemoteLists(i)) :
                    LET stats == Get(RemoteLists(i)[k], "stats")
                        entryOut == outcome[i].payload.a[k]
                    IN /\ Get(entryOut, "subscribers") = Get(stats, "member_count")
                       /\ \A r \in {"open_rate", "click_rate"} :
                             IsFraction(Get(stats, r)) =>
                                 IsPercentOf(Get(entryOut, r), Get(stats, r))

\* C12 witness: stats {member_count: 250, open_rate: 0.423, click_rate: 0.081}
\* came out as subscribers 250, "42.3%" and "8.1%", and next to them an
\* audience whose open rate 0.0456 was rounded up to "4.6%"
C12_Witness ==
    \E i \in Inv :
        /\ ListAnswered(i)
        /\ Len(RemoteLists(i)) = 2
        /\ Get(RemoteLists(i)[1], "stats") = Stats
        /\ Get(outcome[i].payload.a[1], "subscribers") = Num(250)
        /\ Get(outcome[i].payload.a[1], "open_rate") = Chars(<<"4", "2", ".", "3", "%">>)
        /\ Get(outcome[i].payload.a[1], "click_rate") = Chars(<<"8", ".", "1", "%">>)
        /\ Get(outcome[i].payload.a[2], "open_rate") = Chars(<<"4", ".", "6", "%">>)

\* C13: each entry point registers exactly nine tools with pairwise distinct
\* names, and a call of any tool name of the README's tool table is looked
\* up successfully in the catalog of either entry point.
C13_ReadmeNames ==
    /\ Len(index_tools) = 9 /\ Cardinality(Range(index_tools)) = 9
    /\ Len(mcp_tools) = 9 /\ Cardinality(Range(mcp_tools)) = 9
    /\ \A i \in Inv :
          (tool[i] \in Range(readme_tools) /\ Finished(i)) =>
              outcome[i] # ToolNotFound(tool[i])

\* invocation i has passed the lookup and the input validation
Dispatched(i) == pc[i] \in {"awaiting", "reading", "done", "returned"}

\* the remote accepted the request of invocation i
Accepted(i) == response[i].kind = "response" /\ ResponseOk(response[i].status)

\* a remote that keeps the content of a campaign as the chunks of HTML it
\* holds: an accepted PUT of .../content replaces them, an accepted POST
\* would add to them, anything else leaves them alone
RemoteApply(content, i) ==
    IF /\ Finished(i) /\ Accepted(i) /\ Len(outbound[i]) = 1
       /\ outbound[i][1].path = <<Seg.api, Seg.campaigns, PlainId.c, Seg.content>>
    THEN IF outbound[i][1].method = "PUT" THEN <<Get(outbound[i][1].body, "html")>>
         ELSE Append(content, Get(outbound[i][1].body, "html"))
    ELSE content

PriorContents == {<<>>, <<Str("<p>old</p>")>>}

\* the id is text that stays one path segment of a URL: not empty, no
\* '/', '?' or '#' in it, and not a dot segment
IsSegment(id) ==
    /\ id.t = "chars"
    /\ id.c # <<>>
    /\ \A k \in 1..Len(id.c) : id.c[k] \notin {"/", "?", "#"}
    /\ id.c \notin {<<".">>, <<".", ".">>}

\* two invocations of set content with the same arguments
SameContentCalls(i, j) ==
    /\ i # j
    /\ tool[i] = SetContentName(entry) /\ tool[j] = SetContentName(entry)
    /\ Dispatched(i) /\ Dispatched(j)
    /\ args[i] = args[j]

\* C14: two invocations of set content with the same campaign id and the
\* same HTML issue the identical request, PUT /campaigns/{id}/content with
\* body {html}, or are both rejected; given the same answer they end the
\* same way; on a remote whose PUT replaces, the content after the second
\* call is the content after the first.
C14_SetContentIdempotent ==
    \A i, j \in Inv :
        SameContentCalls(i, j) =>
            /\ outbound[i] = outbound[j]
            /\ ContractMet(i) =>
                  /\ Len(outbound[i]) = 1
                  /\ outbound[i][1].method = "PUT"
                  /\ outbound[i][1].path =
                        UrlPath(PathText(<<Seg.campaigns, TemplateChars(args[i].campaign_id),
                                           Seg.content>>))
                  /\ IsSegment(args[i].campaign_id) =>
                        /\ outbound[i][1].path =
                              <<Seg.api, Seg.campaigns, args[i].campaign_id.c, Seg.content>>
                        /\ outbound[i][1].query = <<>>
                  /\ outbound[i][1].body = Obj([html |-> args[i].html])
            /\ ~ContractMet(i) =>
                  outcome[i] = InvalidArguments(tool[i]) /\ outcome[j] = outcome[i]
            /\ (Finished(i) /\ Finished(j) /\ response[i] = response[j]) =>
                  /\ outcome[i] = outcome[j]
                  /\ \A c \in PriorContents :
                        RemoteApply(RemoteApply(c, i), j) = RemoteApply(c, i)

\* C14 witness: the same HTML was set twice on a campaign that held other
\* content, both calls were accepted, and the campaign holds the HTML once
C14_Witness ==
    \E i, j \in Inv :
        /\ SameContentCalls(i, j)
        /\ args[i].html = Str("<p>A</p>")
        /\ Finished(i) /\ Finished(j) /\ Accepted(i) /\ Accepted(j)
        /\ outcome[i].ok /\ outcome[j].ok
        /\ RemoteApply(RemoteApply(<<Str("<p>old</p>")>>, i), j) = <<Str("<p>A</p>")>>

\* C15: whatever invocations came before, an invocation with valid
\* arguments is forwarded to the remote platform as its one request, on the
\* campaign it names, and it fails only if the remote answers with a
\* failure; nothing is rejected or checked on account of earlier invocations.
C15_NoLifecycle ==
    \A j \in Inv :
        (ContractMet(j) /\ apiKey # <<>> /\ pc[j] \in {"done", "returned"}) =>
            /\ Len(outbound[j]) = 1
            /\ outbound[j][1].path[1] = Seg.api
            /\ outbound[j][1].path[2] = Seg.campaigns
            /\ outbound[j][1].path[3] = args[j].campaign_id.c
            /\ response[j] # NoResponse
            /\ outcome[j].ok <=> Accepted(j)

\* C15 witness: a campaign was sent, and the later delete of the same
\* campaign went out to the remote platform and succeeded there; a test of
\* a campaign whose content no invocation had set went out as well
C15_Witness ==
    \E i, j \in Inv :
        /\ i # j
        /\ tool[i] \in {"mailchimp_send_campaign", "mailchimp_send_test"}
        /\ pc[i] = "returned" /\ Accepted(i) /\ outcome[i].ok
        /\ tool[j] = "mailchimp_delete_campaign"
        /\ pc[j] = "done" /\ Len(outbound[j]) = 1 /\ Accepted(j) /\ outcome[j].ok
        /\ args[j].campaign_id = args[i].campaign_id

OtherEntry(e) == IF e = "standalone" THEN "serverless" ELSE "standalone"

\* the sequence of tool names of an entry point, in the order of registration
Catalog(e) == IF e = "standalone" THEN index_tools ELSE mcp_tools

\* the name the other entry point gives to the operation an entry point
\* registers as name: the two catalogs list the nine operations in one order
Counterpart(e, name) ==
    Catalog(OtherEntry(e))[CHOOSE k \in DOMAIN Catalog(e) : Catalog(e)[k] = name]

\* what the other entry point sends for the operation and input of invocation i
OtherRequest(i) ==
    FetchOf(OtherEntry(entry), apiKey, dataCenter,
            RequestOf(OtherEntry(entry), Counterpart(entry, tool[i]), args[i]))

\* C16: for each of the nine operations and every valid input, the standalone
\* server and the serverless function build the same outbound request (same
\* method, path, query parameters and JSON body), and the clients of both
\* treat a 204 response as an empty success and a non-success response as a
\* failure.
C16_CatalogsEquivalent ==
    \A i \in Inv :
        (ContractMet(i) /\ apiKey # <<>> /\ Dispatched(i)) =>
            /\ SchemaOk(InputSchema(OtherEntry(entry), Counterpart(entry, tool[i])), args[i])
            /\ UrlOk(entry, apiKey, dataCenter) <=> UrlOk(OtherEntry(entry), apiKey, dataCenter)
            /\ IF UrlOk(entry, apiKey, dataCenter)
               THEN /\ Len(outbound[i]) = 1
                    /\ outbound[i][1].method = OtherRequest(i).method
                    /\ outbound[i][1].host = OtherRequest(i).host
                    /\ outbound[i][1].path = OtherRequest(i).path
                    /\ outbound[i][1].query = OtherRequest(i).query
                    /\ outbound[i][1].params = OtherRequest(i).params
                    /\ outbound[i][1].body = OtherRequest(i).body
               ELSE outbound[i] = <<>> /\ ~outcome[i].ok
            /\ (Finished(i) /\ response[i].kind = "response" /\ response[i].status = 204) =>
                  \A e \in Entries :
                      ResponseOf(e, response[i]).ok /\ ResponseOf(e, response[i]).value = EmptyObj
            /\ (Finished(i) /\ NonSuccess(response[i])) =>
                  /\ ~outcome[i].ok
                  /\ \A e \in Entries : ~ResponseOf(e, response[i]).ok

\* C16 witness: the serverless function has sent, for a get report call (an
\* operation the standalone server registers under another name), the GET
\* /reports/{id} the standalone server sends, and the 404 answer failed it
C16_Witness ==
    \E i \in Inv :
        /\ entry = "serverless"
        /\ apiKey # <<>>
        /\ tool[i] = "mailchimp_get_report"
        /\ ContractMet(i) /\ Finished(i)
        /\ Counterpart(entry, tool[i]) = "mailchimp_get_campaign_report"
        /\ outbound[i] = <<OtherRequest(i)>>
        /\ outbound[i][1].method = "GET"
        /\ args[i].campaign_id = PlainId
        /\ outbound[i][1].path = <<Seg.api, Seg.reports, PlainId.c>>
        /\ response[i].kind = "response" /\ response[i].status = 404
        /\ ~outcome[i].ok

====
